---- MODULE Spec2Model ----
(***************************************************************************)
(* mini-interaction: the interaction dispatcher (MiniInteraction client),  *)
(* its handler registries and lazy auto-discovery, and the per-interaction *)
(* response wrappers (command, context menu, component, modal submit).     *)
(*                                                                         *)
(* Eight specifications share the module:                                  *)
(*   Spec         the client serving traffic: concurrent handleRequest and *)
(*                registerCommands calls and the lazy directory loads;     *)
(*   SpecLoad     the client being set up: manual registration and         *)
(*                explicit loadXFromDirectory calls;                       *)
(*   SpecWrapper  one wrapper session driven by arbitrary helper calls,    *)
(*                with and without the optional helper callbacks;          *)
(*   SpecRegistry the registration methods called in any order;            *)
(*   SpecNormalise the message-data normaliser applied to its arguments;   *)
(*   SpecHelpers  the select-menu getters, the option resolver and the     *)
(*                directory resolver applied to their arguments;           *)
(*   SpecSessions two wrapper sessions whose helper calls interleave;      *)
(*   SpecTokens   the OAuth token storage over a database that can fail.   *)
(***************************************************************************)
EXTENDS Integers, Sequences, FiniteSets, TLC

VARIABLES
    commands,               \* Map<string, MiniInteractionCommand>, insertion ordered
    componentHandlers,      \* Map<string, handler>
    modalHandlers,          \* Map<string, handler>
    commandsLoaded,
    componentsLoaded,
    loadCommandsPromise,    \* 0 for null, else the number of the load in loads
    loadComponentsPromise,
    commandsDirectory,      \* "null" (disabled) or the resolved directory
    componentsDirectory,
    fs,                     \* the directories on disk (environment)
    loads,                  \* loadXFromDirectory calls, in flight or finished
    reqs,                   \* handleRequest / registerCommands calls in flight
    finished,               \* the call that has just settled
    manual,                 \* manual registration calls made so far
    session                 \* a wrapper used on its own (SpecWrapper)

vars == <<commands, componentHandlers, modalHandlers, commandsLoaded,
          componentsLoaded, loadCommandsPromise, loadComponentsPromise,
          commandsDirectory, componentsDirectory, fs, loads, reqs, finished,
          manual, session>>

clientVars == <<commands, componentHandlers, modalHandlers, commandsLoaded,
                componentsLoaded, loadCommandsPromise, loadComponentsPromise,
                commandsDirectory, componentsDirectory, fs, loads, reqs,
                finished, manual>>

registries == <<commands, componentHandlers, modalHandlers>>

(***************************************************************************)
(* Bounds                                                                  *)
(***************************************************************************)
MaxCalls == 2        \* helper calls one handler makes
MaxReads == 2        \* getResponse() calls one handler makes
MaxReq == 2          \* handleRequest calls in flight at once
MaxExplicit == 2     \* explicit loadXFromDirectory calls per behaviour
MaxManual == 1       \* manual useCommand/useComponent/useModal calls
MaxUses == 3         \* registration calls made by the application
MaxFlags == 3        \* length of a flags array
MaxComps == 2        \* top-level components of a message
MaxKids == 1         \* components inside an action row
MaxLoads == 4        \* loadXFromDirectory calls per behaviour, lazy ones included
MaxValues == 2       \* values of a select-menu interaction
MaxOptions == 2      \* options of a command interaction at one level
MaxSegments == 3     \* segments of a directory override

(***************************************************************************)
(* Message data and envelopes                                              *)
(***************************************************************************)
Undef == -1                      \* an undefined flags value
Ephemeral == 64
IsComponentsV2 == 32768

\* data === undefined
NoData == [content |-> "undefined", flags |-> Undef, comps |-> "none"]

MsgData(c) == [content |-> c, flags |-> Undef, comps |-> "none"]

DataSet == {NoData, MsgData("x"), MsgData("y")}

FlagSet == {Undef, Ephemeral}

HasBit(f, b) == (f \div b) % 2 = 1

RECURSIVE BitOr(_, _)

\* the sum in place of the bitwise or
BitSum(a, b) == a + b

\* a | b
BitOr(a, b) ==
    IF a = 0 THEN b
    ELSE IF b = 0 THEN a
    ELSE (IF a % 2 = 1 \/ b % 2 = 1 THEN 1 ELSE 0) + 2 * BitOr(a \div 2, b \div 2)

normaliseMessageFlags(flags) == flags

normaliseInteractionMessageData(data) ==
    IF data = NoData THEN NoData
    ELSE LET usesComponentsV2 == data.comps = "v2"
             normalisedFlags == normaliseMessageFlags(data.flags)
             finalFlags == IF usesComponentsV2
                           THEN BitOr(IF normalisedFlags = Undef THEN 0
                                      ELSE normalisedFlags, IsComponentsV2)
                           ELSE normalisedFlags
         IN [data EXCEPT !.flags = finalFlags]

Env(t, d) == [type |-> t, data |-> d]
NullEnv == Env("null", NoData)
ModalData == [content |-> "modal", flags |-> Undef, comps |-> "none"]
FlagsOnly(f) == [content |-> "undefined", flags |-> f, comps |-> "none"]

(***************************************************************************)
(* Wrapper state.  h is the optional helpers argument of the factory:      *)
(* [sendFollowUp, onAck, canRespond : BOOLEAN] say which callbacks exist.  *)
(***************************************************************************)
NoHelpers == [sendFollowUp |-> FALSE, onAck |-> FALSE, canRespond |-> FALSE]
NewWrapper(kind, h) ==
    [kind |-> kind, h |-> h, capturedResponse |-> NullEnv,
     isDeferred |-> FALSE, hasResponded |-> FALSE,
     followUps |-> <<>>, acks |-> 0, n |-> 0,
     last |-> [op |-> "none", data |-> NoData, threw |-> FALSE, err |-> "", sent |-> FALSE]]

Threw(w, op, d, msg) ==
    [w EXCEPT !.n = @ + 1,
              !.last = [op |-> op, data |-> d, threw |-> TRUE, err |-> msg,
                        sent |-> FALSE]]

Returned(w, op, d, sent) ==
    [w EXCEPT !.n = @ + 1,
              !.last = [op |-> op, data |-> d, threw |-> FALSE, err |-> "",
                        sent |-> sent]]

captureResponse(w, response) == [w EXCEPT !.capturedResponse = response]

sendFollowUp(w, response, messageId) ==
    [w EXCEPT !.followUps = Append(@, [token |-> "token", env |-> response,
                                       messageId |-> messageId])]

onAck(w) == IF w.h.onAck THEN [w EXCEPT !.acks = @ + 1] ELSE w

\* a getter that forgets what was captured
getResponseNull(w) == NullEnv

getResponse(w) == w.capturedResponse

(***************************************************************************)
(* Command wrapper: createCommandInteraction.  can is what the canRespond  *)
(* helper answers when it exists.                                          *)
(***************************************************************************)
Blocked(w, can) == w.h.canRespond /\ ~can

\* createMessageResponse(ChannelMessageWithSource, data), then the routing
CommandReply(w, d, can) ==
    LET normalisedData == normaliseInteractionMessageData(d)
        response == Env("ChannelMessage", normalisedData)
    IN  IF Blocked(w, can)
        THEN Threw(w, "reply", d, "Interaction cannot respond: already responded or expired")
        ELSE IF normalisedData = NoData
        THEN Threw(w, "reply", d, "Channel message responses require data to be provided.")
        ELSE LET w1 == captureResponse(w, response)
                 w2 == IF w1.isDeferred /\ w1.h.sendFollowUp
                       THEN sendFollowUp(w1, response, "@original")
                       ELSE onAck(w1)
             IN  Returned([w2 EXCEPT !.hasResponded = TRUE], "reply", d,
                          w1.isDeferred /\ w1.h.sendFollowUp)

CommandFollowUp(w, d, can) ==
    LET normalisedData == normaliseInteractionMessageData(d)
        response == Env("ChannelMessage", normalisedData)
    IN  IF normalisedData = NoData
        THEN Threw(w, "followUp", d, "followUp requires data")
        ELSE LET w1 == IF w.h.sendFollowUp THEN sendFollowUp(w, response, "")
                       ELSE w
             IN  Returned([w1 EXCEPT !.hasResponded = TRUE], "followUp", d,
                          w.h.sendFollowUp)

CommandEdit(w, d, can) ==
    LET normalisedData == normaliseInteractionMessageData(d)
    IN  Returned(captureResponse(w, Env("UpdateMessage", normalisedData)),
                 "edit", d, FALSE)

CommandEditReply(w, d, can) ==
    LET normalizedData == normaliseInteractionMessageData(d)
        response == Env("ChannelMessage", normalizedData)
    IN  IF Blocked(w, can)
        THEN Threw(w, "editReply", d, "Interaction cannot edit reply: expired")
        ELSE IF normalizedData = NoData
        THEN Threw(w, "editReply", d, "editReply requires data")
        ELSE LET routed == w.h.sendFollowUp /\ (w.isDeferred \/ w.hasResponded)
                 w1 == IF routed THEN sendFollowUp(w, response, "@original")
                       ELSE onAck(captureResponse(w, response))
             IN  Returned([w1 EXCEPT !.hasResponded = TRUE], "editReply", d,
                          routed)

\* createDeferredResponse: the flags go through normaliseMessageFlags
CommandDeferReply(w, f, can) ==
    LET response == IF f = Undef THEN Env("DeferredChannelMessage", NoData)
                    ELSE Env("DeferredChannelMessage",
                             FlagsOnly(normaliseMessageFlags(f)))
    IN  IF Blocked(w, can)
        THEN Threw(w, "deferReply", NoData, "Interaction cannot defer: already responded or expired")
        ELSE Returned(onAck([captureResponse(w, response)
                                EXCEPT !.isDeferred = TRUE]),
                      "deferReply", NoData, FALSE)

CommandShowModal(w) ==
    Returned(onAck(captureResponse(w, Env("Modal", ModalData))),
             "showModal", ModalData, FALSE)

(***************************************************************************)
(* Context-menu wrapper: createContextMenuInteractionHelpers               *)
(***************************************************************************)
ContextReply(w, d, can) ==
    LET normalised == normaliseInteractionMessageData(d)
        response == Env("ChannelMessage", normalised)
    IN  IF Blocked(w, can)
        THEN Threw(w, "reply", d, "Interaction cannot respond: already responded or expired")
        ELSE IF normalised = NoData
        THEN Threw(w, "reply", d, "Channel message responses require data to be provided.")
        ELSE LET w1 == captureResponse(w, response)
                 w2 == IF w1.isDeferred /\ w1.h.sendFollowUp
                       THEN sendFollowUp(w1, response, "@original")
                       ELSE onAck(w1)
             IN  Returned([w2 EXCEPT !.hasResponded = TRUE], "reply", d,
                          w1.isDeferred /\ w1.h.sendFollowUp)

ContextFollowUp(w, d, can) ==
    LET normalised == normaliseInteractionMessageData(d)
        response == Env("ChannelMessage", normalised)
    IN  IF normalised = NoData
        THEN Threw(w, "followUp", d, "Channel message responses require data to be provided.")
        ELSE LET w1 == captureResponse(w, response)
                 w2 == IF w1.h.sendFollowUp THEN sendFollowUp(w1, response, "")
                       ELSE w1
             IN  Returned([w2 EXCEPT !.hasResponded = TRUE], "followUp", d,
                          w1.h.sendFollowUp)

ContextEditReply(w, d, can) ==
    LET normalised == normaliseInteractionMessageData(d)
        response == Env("ChannelMessage", normalised)
    IN  IF Blocked(w, can)
        THEN Threw(w, "editReply", d, "Interaction cannot edit reply: expired")
        ELSE IF normalised = NoData
        THEN Threw(w, "editReply", d, "Channel message responses require data to be provided.")
        ELSE LET w1 == captureResponse(w, response)
                 routed == w1.h.sendFollowUp /\ (w1.isDeferred \/ w1.hasResponded)
             IN  IF routed
                 THEN Returned(sendFollowUp(w1, response, "@original"),
                               "editReply", d, TRUE)
                 ELSE Returned([onAck(captureResponse(w1, response))
                                   EXCEPT !.hasResponded = TRUE],
                               "editReply", d, FALSE)

ContextDeferReply(w, f, can) ==
    LET flags == normaliseMessageFlags(f)
        response == IF flags = Undef \/ flags = 0
                    THEN Env("DeferredChannelMessage", NoData)
                    ELSE Env("DeferredChannelMessage", FlagsOnly(flags))
    IN  IF Blocked(w, can)
        THEN Threw(w, "deferReply", NoData, "Interaction cannot defer: already responded or expired")
        ELSE Returned(onAck([captureResponse(w, response)
                                EXCEPT !.isDeferred = TRUE]),
                      "deferReply", NoData, FALSE)

ContextShowModal(w) ==
    Returned(captureResponse(w, Env("Modal", ModalData)),
             "showModal", ModalData, FALSE)

(***************************************************************************)
(* Component wrapper: createMessageComponentInteraction                    *)
(***************************************************************************)
\* a reply that does not ask for data
ComponentReplyAnyData(w, d) ==
    LET response == Env("ChannelMessage", normaliseInteractionMessageData(d))
        w1 == captureResponse(w, response)
        routed == w1.isDeferred /\ w1.h.sendFollowUp
    IN  Returned(IF routed THEN sendFollowUp(w1, response, "") ELSE onAck(w1),
                 "reply", d, routed)

ComponentReply(w, d) ==
    LET normalisedData == normaliseInteractionMessageData(d)
        response == Env("ChannelMessage", normalisedData)
    IN  IF normalisedData = NoData
        THEN Threw(w, "reply", d, "Component replies require response data to be provided.")
        ELSE LET w1 == captureResponse(w, response)
                 routed == w1.isDeferred /\ w1.h.sendFollowUp
             IN  Returned(IF routed THEN sendFollowUp(w1, response, "")
                          ELSE onAck(w1), "reply", d, routed)

ComponentDeferReply(w, f) ==
    LET flags == normaliseMessageFlags(f)
        response == IF flags # Undef
                    THEN Env("DeferredChannelMessage", FlagsOnly(flags))
                    ELSE Env("DeferredChannelMessage", NoData)
    IN  Returned(onAck([captureResponse(w, response) EXCEPT !.isDeferred = TRUE]),
                 "deferReply", NoData, FALSE)

ComponentUpdate(w, d) ==
    LET normalisedData == normaliseInteractionMessageData(d)
        response == Env("UpdateMessage", normalisedData)
        w1 == captureResponse(w, response)
        routed == w1.isDeferred /\ w1.h.sendFollowUp
    IN  Returned(IF routed THEN sendFollowUp(w1, response, "@original")
                 ELSE onAck(w1), "update", d, routed)

\* a deferred update that does not mark the interaction as deferred
ComponentDeferUpdateUnmarked(w) ==
    Returned(onAck(captureResponse(w, Env("DeferredMessageUpdate", NoData))),
             "deferUpdate", NoData, FALSE)

ComponentDeferUpdate(w) ==
    Returned(onAck([captureResponse(w, Env("DeferredMessageUpdate", NoData))
                       EXCEPT !.isDeferred = TRUE]),
             "deferUpdate", NoData, FALSE)

ComponentShowModal(w) ==
    Returned(captureResponse(w, Env("Modal", ModalData)),
             "showModal", ModalData, FALSE)

(***************************************************************************)
(* Modal-submit wrapper: createModalSubmitInteraction                      *)
(***************************************************************************)
ModalReply(w, d) ==
    LET normalisedData == normaliseInteractionMessageData(d)
        response == Env("ChannelMessage", normalisedData)
    IN  IF normalisedData = NoData
        THEN Threw(w, "reply", d, "Modal replies require response data to be provided.")
        ELSE LET w1 == captureResponse(w, response)
                 routed == w1.isDeferred /\ w1.h.sendFollowUp
             IN  Returned(IF routed THEN sendFollowUp(w1, response, "@original")
                          ELSE onAck(w1), "reply", d, routed)

ModalEditReply(w, d) ==
    LET normalisedData == normaliseInteractionMessageData(d)
        response == Env("ChannelMessage",
                        IF normalisedData = NoData THEN MsgData("")
                        ELSE normalisedData)
        w1 == captureResponse(w, response)
    IN  Returned(IF w1.h.sendFollowUp THEN sendFollowUp(w1, response, "@original")
                 ELSE onAck(w1), "editReply", d, w1.h.sendFollowUp)

ModalDeferReply(w, f) ==
    LET flags == normaliseMessageFlags(f)
        response == IF flags # Undef
                    THEN Env("DeferredChannelMessage", FlagsOnly(flags))
                    ELSE Env("DeferredChannelMessage", NoData)
    IN  Returned(onAck([captureResponse(w, response) EXCEPT !.isDeferred = TRUE]),
                 "deferReply", NoData, FALSE)

(***************************************************************************)
(* The methods each wrapper kind offers, and one call of a method          *)
(***************************************************************************)
WrapperKinds == {"command", "context", "component", "modal"}

OpsOf(kind) ==
    CASE kind = "command"   -> {"reply", "followUp", "edit", "editReply",
                                "deferReply", "showModal"}
      [] kind = "context"   -> {"reply", "followUp", "editReply", "deferReply",
                                "showModal"}
      [] kind = "component" -> {"reply", "deferReply", "update", "deferUpdate",
                                "showModal"}
      [] kind = "modal"     -> {"reply", "editReply", "deferReply"}

\* d is the message data, f the flags of deferReply options
Call(w, op, d, f, can) ==
    CASE w.kind = "command" ->
           (CASE op = "reply"      -> CommandReply(w, d, can)
              [] op = "followUp"   -> CommandFollowUp(w, d, can)
              [] op = "edit"       -> CommandEdit(w, d, can)
              [] op = "editReply"  -> CommandEditReply(w, d, can)
              [] op = "deferReply" -> CommandDeferReply(w, f, can)
              [] op = "showModal"  -> CommandShowModal(w))
      [] w.kind = "context" ->
           (CASE op = "reply"      -> ContextReply(w, d, can)
              [] op = "followUp"   -> ContextFollowUp(w, d, can)
              [] op = "editReply"  -> ContextEditReply(w, d, can)
              [] op = "deferReply" -> ContextDeferReply(w, f, can)
              [] op = "showModal"  -> ContextShowModal(w))
      [] w.kind = "component" ->
           (CASE op = "reply"       -> ComponentReply(w, d)
              [] op = "deferReply"  -> ComponentDeferReply(w, f)
              [] op = "update"      -> ComponentUpdate(w, d)
              [] op = "deferUpdate" -> ComponentDeferUpdate(w)
              [] op = "showModal"   -> ComponentShowModal(w))
      [] w.kind = "modal" ->
           (CASE op = "reply"      -> ModalReply(w, d)
              [] op = "editReply"  -> ModalEditReply(w, d)
              [] op = "deferReply" -> ModalDeferReply(w, f))

\* The argument combinations that make a difference to a method
CallArgs(w, op) ==
    LET ds == IF op \in {"deferReply", "deferUpdate", "showModal"}
              THEN {NoData} ELSE DataSet
        fset == IF op = "deferReply" THEN FlagSet ELSE {Undef}
        cans == IF w.h.canRespond /\ w.kind \in {"command", "context"}
                   /\ op \in {"reply", "editReply", "deferReply"}
                THEN BOOLEAN ELSE {TRUE}
    IN  ds \X fset \X cans


(***************************************************************************)
(* The wrapper states a handler can leave behind.  handleRequest builds    *)
(* every wrapper without the helpers argument.                             *)
(***************************************************************************)
NextWrappers(W) ==
    UNION { {Call(w, c[1], c[2][1], c[2][2], c[2][3]) :
                c \in UNION { {<<op, a>> : a \in CallArgs(w, op)} : op \in OpsOf(w.kind) }} :
            w \in W }

RECURSIVE Reach(_, _)
Reach(W, k) == IF k = 0 THEN W ELSE W \cup Reach(NextWrappers(W), k - 1)

\* the unknown command type gets the raw interaction: no helper exists
RawWrapper == NewWrapper("raw", NoHelpers)

(***************************************************************************)
(* Results of handleRequest                                                *)
(***************************************************************************)
\* an error body: the message, the quoted name in it, the label before the
\* name (Command, Component, Modal) and the appended String(error)
NoError == [msg |-> "", label |-> "", name |-> "", cause |-> ""]

ErrorResult(status, msg, name, cause) ==
    [status |-> status,
     body |-> [tag |-> "error", env |-> NullEnv,
               error |-> [msg |-> msg, label |-> "", name |-> name, cause |-> cause]]]

Labelled(result, label) == [result EXCEPT !.body.error.label = label]

\* thrown values: Error objects and, as a non-Error value, a string
NoThrow == [kind |-> "none", name |-> "", message |-> ""]
JSError(message) == [kind |-> "Error", name |-> "Error", message |-> message]
Thrown(str) == [kind |-> "string", name |-> "", message |-> str]

\* the message alone instead of the string form
StringMessageOnly(error) == error.message

\* String(error): Error.prototype.toString joins name and message
String(error) ==
    IF error.kind = "Error"
    THEN IF error.message = "" THEN error.name
         ELSE error.name \o ": " \o error.message
    ELSE error.message

EnvelopeResult(env) ==
    [status |-> 200, body |-> [tag |-> "envelope", env |-> env, error |-> NoError]]

NoResult == [status |-> 0, body |-> [tag |-> "none", env |-> NullEnv, error |-> NoError]]

\* what the handler did: ret is the awaited return value (NullEnv for void),
\* err the thrown value (NoThrow when it returned), w the wrapper it leaves
Outcome(w, ret, err) == [w |-> w, ret |-> ret, err |-> err]

ReturnSet == {NullEnv, Env("ChannelMessage", MsgData("r"))}
\* a handler throws a value of its own or lets a helper's error through
ThrowSet(w) ==
    {JSError("boom"), Thrown("oops")}
    \cup (IF w.last.threw THEN {JSError(w.last.err)} ELSE {})

\* the captured envelope before the handler's return value
CoalesceCapturedFirst(ret, w) == IF w.capturedResponse # NullEnv THEN w.capturedResponse ELSE ret

\* the handler's return value alone, without the captured envelope
CoalesceReturnOnly(ret, w) == ret

\* response ?? interactionWithHelpers.getResponse()
Coalesce(ret, w) == IF ret # NullEnv THEN ret ELSE getResponse(w)

\* the catch clause: `${label} "${name}" failed: ${String(error)}`
\* a handler failure reported under another status
HandlerFailedBadGateway(label, name, err) ==
    Labelled(ErrorResult(502, "failed", name, String(err)), label)

HandlerFailed(label, name, err) ==
    Labelled(ErrorResult(500, "failed", name, String(err)), label)

\* the error body without the name of the handler
NoResponseUnnamed(label, name) ==
    Labelled(ErrorResult(500, "did not return a response", "", ""), "")

NoResponse(label, name) ==
    Labelled(ErrorResult(500, "did not return a response", name, ""), label)

\* the try block of handleApplicationCommand / handleMessageComponent /
\* handleModalSubmit once the handler has been looked up
DispatchOutcome(label, name, o) ==
    IF o.err # NoThrow THEN HandlerFailed(label, name, o.err)
    ELSE LET resolvedResponse == IF o.w.kind = "raw" THEN o.ret
                                 ELSE Coalesce(o.ret, o.w)
         IN  IF resolvedResponse = NullEnv THEN NoResponse(label, name)
             ELSE EnvelopeResult(resolvedResponse)

(***************************************************************************)
(* SpecWrapper: one wrapper session.  A session created by the dispatcher  *)
(* has no helpers and ends with the handler returning or throwing.         *)
(***************************************************************************)
NewSession(kind, h) ==
    [w |-> NewWrapper(kind, h), pc |-> "handler", ret |-> NullEnv, err |-> NoThrow,
     result |-> NoResult,
     \* what the handler's getResponse() calls gave: how many there were, the
     \* value of the last one and the number of helper calls made before it
     reads |-> 0, got |-> NullEnv, gotAt |-> 0]

SessionCall(op, a) ==
    /\ session.pc = "handler"
    /\ session.w.n < MaxCalls
    /\ op \in OpsOf(session.w.kind)
    /\ a \in CallArgs(session.w, op)
    /\ session' = [session EXCEPT !.w = Call(session.w, op, a[1], a[2], a[3])]
    /\ UNCHANGED clientVars

SessionReturn(ret) ==
    /\ session.pc = "handler"
    /\ session' = [session EXCEPT !.pc = "done", !.ret = ret,
                     !.result = DispatchOutcome("Command", "a",
                                                Outcome(session.w, ret, NoThrow))]
    /\ UNCHANGED clientVars

SessionThrow(e) ==
    /\ session.pc = "handler"
    /\ session' = [session EXCEPT !.pc = "done", !.err = e,
                     !.result = DispatchOutcome("Command", "a",
                                                Outcome(session.w, NullEnv, e))]
    /\ UNCHANGED clientVars

WrapperNext ==
    \/ \E op \in UNION {OpsOf(k) : k \in WrapperKinds} : \E a \in DataSet \X FlagSet \X BOOLEAN : SessionCall(op, a)
    \/ \E ret \in ReturnSet : SessionReturn(ret)
    \/ \E e \in ThrowSet(session.w) : SessionThrow(e)
    \* the handler calls getResponse()
    \/ /\ session.pc = "handler"
       /\ session.reads < MaxReads
       /\ session' = [session EXCEPT !.reads = @ + 1,
                                      !.got = getResponse(session.w),
                                      !.gotAt = session.w.n]
       /\ UNCHANGED clientVars


(***************************************************************************)
(* Registries: a JavaScript Map keeps one entry per key, in insertion      *)
(* order.  Keys are strings; "undefined" stands for a missing or           *)
(* non-string key, "notfn" for a handler that is not a function.           *)
(***************************************************************************)
Names == {"a", "b"}

Falsy(x) == x \in {"", "undefined"}
IsString(x) == x # "undefined"
IsFunction(h) == h # "notfn"

MapHas(m, k) == \E i \in 1..Len(m) : m[i].key = k
MapIndex(m, k) == CHOOSE i \in 1..Len(m) : m[i].key = k
MapGet(m, k) == m[MapIndex(m, k)].value
\* a registry that appends instead of replacing the entry of a known key
MapSetAppend(m, k, v) == Append(m, [key |-> k, value |-> v])

MapSet(m, k, v) ==
    IF MapHas(m, k) THEN [m EXCEPT ![MapIndex(m, k)] = [key |-> k, value |-> v]]
    ELSE Append(m, [key |-> k, value |-> v])
MapCount(m, k) == Cardinality({i \in 1..Len(m) : m[i].key = k})

\* the three maps plus whether the operation threw
Reg(c, p, m, threw) == [commands |-> c, components |-> p, modals |-> m, threw |-> threw]

\* a registry that rejects a custom id it already knows
useComponentOnce(R, component) ==
    IF Falsy(component.customId) THEN [R EXCEPT !.threw = TRUE]
    ELSE IF ~IsFunction(component.handler) THEN [R EXCEPT !.threw = TRUE]
    ELSE IF MapHas(R.components, component.customId) THEN [R EXCEPT !.threw = TRUE]
    ELSE [R EXCEPT !.components = Append(@, [key |-> component.customId,
                                              value |-> component.handler])]

useComponent(R, component) ==
    IF Falsy(component.customId) THEN [R EXCEPT !.threw = TRUE]
    ELSE IF ~IsFunction(component.handler) THEN [R EXCEPT !.threw = TRUE]
    ELSE [R EXCEPT !.components = MapSet(@, component.customId, component.handler)]

useModal(R, modal) ==
    IF Falsy(modal.customId) THEN [R EXCEPT !.threw = TRUE]
    ELSE IF ~IsFunction(modal.handler) THEN [R EXCEPT !.threw = TRUE]
    ELSE [R EXCEPT !.modals = MapSet(@, modal.customId, modal.handler)]

\* for (const component of list) this.useComponent(component): the first
\* throw ends the loop and leaves what was registered before it
RECURSIVE useComponents(_, _)
useComponents(R, list) ==
    IF R.threw \/ list = <<>> THEN R
    ELSE useComponents(useComponent(R, Head(list)), Tail(list))

RECURSIVE useModals(_, _)
useModals(R, list) ==
    IF R.threw \/ list = <<>> THEN R
    ELSE useModals(useModal(R, Head(list)), Tail(list))

\* a useCommand that registers the command and nothing else
useCommandAlone(R, command) ==
    IF Falsy(command.name) THEN [R EXCEPT !.threw = TRUE]
    ELSE [R EXCEPT !.commands = MapSet(@, command.name, command)]

useCommand(R, command) ==
    IF Falsy(command.name) THEN [R EXCEPT !.threw = TRUE]
    ELSE LET R1 == [R EXCEPT !.commands = MapSet(@, command.name, command)]
         IN  useModals(useComponents(R1, command.components), command.modals)

(***************************************************************************)
(* Directories on disk and the modules in them                             *)
(***************************************************************************)
Item(id, h) == [obj |-> TRUE, customId |-> id, handler |-> h]

Cmd(name, h, comps, modals) ==
    [name |-> name, handler |-> h, components |-> comps, modals |-> modals]

\* a command module: whether import() succeeds and the candidate it exports
CmdFile(ok, obj, command) == [importOk |-> ok, obj |-> obj, cand |-> command]

\* a component module: its absolute path as the sequence of its segments (the
\* last one is the file name), whether import() succeeds, and the candidates
\* its exports yield
CompFile(ok, path, items) == [importOk |-> ok, path |-> path, cands |-> items]

Dir(exists, readable, files) ==
    [observed |-> TRUE, exists |-> exists, readable |-> readable, files |-> files]

Unobserved == [observed |-> FALSE, exists |-> FALSE, readable |-> FALSE, files |-> <<>>]

\* a missing directory, an unreadable one, an empty one, and one with a
\* module that cannot be imported next to a command that carries a component
CommandDirs ==
    { Dir(FALSE, FALSE, <<>>),
      Dir(TRUE, FALSE, <<>>),
      Dir(TRUE, TRUE, <<>>),
      Dir(TRUE, TRUE, << CmdFile(FALSE, TRUE, Cmd("b", "hf", <<>>, <<>>)),
                         CmdFile(TRUE, TRUE, Cmd("a", "hf", <<Item("a", "hf")>>, <<>>)) >>) }

\* a missing directory, an unreadable one, one with a component and a file
\* under modals/, and one whose second module exports an empty customId
ComponentDirs ==
    { Dir(FALSE, FALSE, <<>>),
      Dir(TRUE, FALSE, <<>>),
      Dir(TRUE, TRUE,
          << CompFile(TRUE, <<"components", "modals.js">>, <<Item("a", "hf")>>),
             CompFile(TRUE, <<"components", "modals", "b.js">>, <<Item("b", "hf")>>) >>),
      Dir(TRUE, TRUE,
          << CompFile(TRUE, <<"components", "a.js">>, <<Item("a", "hf")>>),
             CompFile(TRUE, <<"components", "b.js">>, <<Item("", "hf")>>) >>) }

NullCmd == Cmd("undefined", "notfn", <<>>, <<>>)

\* returns { data, handler }: the candidate's components and modals arrays
\* are not part of the returned command
importCommandModule(file) ==
    IF ~file.importOk THEN NullCmd
    ELSE IF ~file.obj THEN NullCmd
    ELSE IF ~IsString(file.cand.name) THEN NullCmd
    ELSE IF ~IsFunction(file.cand.handler) THEN NullCmd
    ELSE Cmd(file.cand.name, file.cand.handler, <<>>, <<>>)

\* the loop over the candidates: [R, components]; a throwing useModal sets
\* R.threw and the catch clause of importComponentModule returns []
RECURSIVE collectCandidates(_, _, _, _)
collectCandidates(R, isModalFile, cands, components) ==
    IF R.threw THEN [R |-> [R EXCEPT !.threw = FALSE], components |-> <<>>]
    ELSE IF cands = <<>> THEN [R |-> R, components |-> components]
    ELSE LET item == Head(cands)
         IN  IF ~item.obj \/ ~IsString(item.customId) \/ ~IsFunction(item.handler)
             THEN collectCandidates(R, isModalFile, Tail(cands), components)
             ELSE IF isModalFile
             THEN collectCandidates(useModal(R, item), isModalFile, Tail(cands),
                                    components)
             ELSE collectCandidates(R, isModalFile, Tail(cands),
                                    Append(components, item))

\* no file counts as a modal file
isModalFileNever(absolutePath) == FALSE

\* absolutePath.includes("/modals/"): some directory of the path is "modals"
isModalFile(absolutePath) ==
    \E i \in 1..(Len(absolutePath) - 1) : absolutePath[i] = "modals"

importComponentModule(R, file) ==
    IF ~file.importOk THEN [R |-> R, components |-> <<>>]
    ELSE collectCandidates(R, isModalFile(file.path), file.cands, <<>>)

\* one iteration of the for loop of loadCommandsFromDirectory
loadCommandFile(R, file) ==
    LET command == importCommandModule(file)
    IN  IF command = NullCmd THEN R
        ELSE LET R1 == [R EXCEPT !.commands = MapSet(@, command.name, command)]
             IN  useModals(useComponents(R1, command.components), command.modals)

\* one iteration of the for loop of loadComponentsFromDirectory
loadComponentFile(R, file) ==
    LET imported == importComponentModule(R, file)
    IN  useComponents(imported.R, imported.components)


(***************************************************************************)
(* Handler outcomes as handleRequest sees them: the wrapper is reduced to  *)
(* what the dispatcher reads from it.                                      *)
(***************************************************************************)
Seen(w) ==
    [kind |-> w.kind, capturedResponse |-> w.capturedResponse, n |-> w.n,
     last |-> w.last]

OutcomesFrom(W) ==
    {Outcome(Seen(w), ret, NoThrow) : w \in W, ret \in ReturnSet}
    \cup UNION { {Outcome(Seen(w), NullEnv, e) : e \in ThrowSet(w)} : w \in W }

CommandOutcomes == OutcomesFrom(Reach({NewWrapper("command", NoHelpers)}, MaxCalls))
ContextOutcomes == OutcomesFrom(Reach({NewWrapper("context", NoHelpers)}, MaxCalls))
ComponentOutcomes == OutcomesFrom(Reach({NewWrapper("component", NoHelpers)}, MaxCalls))
ModalOutcomes == OutcomesFrom(Reach({NewWrapper("modal", NoHelpers)}, MaxCalls))
OutcomesOf(kind) ==
    CASE kind = "command"   -> CommandOutcomes
      [] kind = "context"   -> ContextOutcomes
      [] kind = "component" -> ComponentOutcomes
      [] kind = "modal"     -> ModalOutcomes
      [] kind = "raw"       -> OutcomesFrom({RawWrapper})

NoOutcome == Outcome(Seen(RawWrapper), NullEnv, NoThrow)

(***************************************************************************)
(* Requests                                                                *)
(***************************************************************************)
Body(t, name, ctype) == [t |-> t, name |-> name, ctype |-> ctype]
NoBody == Body("unread", "", "")

Bodies ==
    {Body("badjson", "", ""), Body("jsonnull", "", ""), Body("ping", "", ""),
     Body("unknown", "", "")}
    \cup {Body("command", n, c) : n \in Names, c \in {"ChatInput", "User", "Message", "Other"}}
    \cup {Body("command", "", "ChatInput")}
    \cup {Body(t, n, "") : t \in {"component", "modal"}, n \in Names \cup {""}}

NoTrace == [parsed |-> FALSE, ensured |-> FALSE, looked |-> FALSE, invoked |-> FALSE]

Fin(sig, ts, verified, body, trace, o, settled, result) ==
    [valid |-> TRUE, call |-> "handleRequest", sig |-> sig, ts |-> ts, verified |-> verified, body |-> body,
     trace |-> trace, o |-> o, settled |-> settled, result |-> result]

NoFinished ==
    [valid |-> FALSE, call |-> "", sig |-> "", ts |-> "", verified |-> "", body |-> NoBody,
     trace |-> NoTrace, o |-> NoOutcome, settled |-> "", result |-> NoResult]

\* a call in flight: awaiting verifyKeyImpl, or awaiting the load promise
\* with number await; t is the interaction type read so far
Hdr(sig, ts, verified) == [sig |-> sig, ts |-> ts, verified |-> verified]

InFlight(pc, t, await, hdr) == [pc |-> pc, t |-> t, await |-> await, hdr |-> hdr]

\* the payloads of type t that got past the checks made before the await
Remove(seq, i) == SubSeq(seq, 1, i - 1) \o SubSeq(seq, i + 1, Len(seq))

CurReg == Reg(commands, componentHandlers, modalHandlers, FALSE)

Loaded(kind) == IF kind = "commands" THEN commandsLoaded ELSE componentsLoaded
Directory(kind) == IF kind = "commands" THEN commandsDirectory ELSE componentsDirectory
Promise(kind) == IF kind = "commands" THEN loadCommandsPromise ELSE loadComponentsPromise

\* a loadXFromDirectory call: where it stands, whether it has traversed the
\* directory, and whether the loaded flag was already set when it was called
Task(kind, origin, pc, wasLoaded) ==
    [kind |-> kind, origin |-> origin, pc |-> pc, i |-> 0, traversed |-> FALSE,
     wasLoaded |-> wasLoaded]

\* if (!signature || !timestamp)
\* a verification result that is never looked at
VerifiedOkAlways(v) == TRUE

\* if (!verified)
VerifiedOk(v) == v = "true"

\* the request i settles: the promise of handleRequest resolves with a
\* result or rejects
SettleWith(i, fin) ==
    /\ reqs' = Remove(reqs, i)
    /\ finished' = fin
    /\ UNCHANGED <<commands, componentHandlers, modalHandlers, commandsLoaded,
                   componentsLoaded, loadCommandsPromise, loadComponentsPromise,
                   commandsDirectory, componentsDirectory, fs, loads, manual, session>>

Resolved(i, v, body, trace, o, result) ==
    SettleWith(i, Fin(reqs[i].hdr.sig, reqs[i].hdr.ts, v, body, trace, o,
                      "resolved", result))

Rejected(i, v, body, trace) ==
    SettleWith(i, Fin(reqs[i].hdr.sig, reqs[i].hdr.ts, v, body, trace, NoOutcome,
                      "rejected", NoResult))

\* modal custom ids looked up among the component handlers
RegistryOfComponents(body) ==
    CASE body.t \in {"component", "modal"} -> componentHandlers
      [] OTHER -> commands

RegistryOf(body) ==
    CASE body.t = "component" -> componentHandlers
      [] body.t = "modal" -> modalHandlers
      [] OTHER -> commands

\* after the loads have been ensured: name check, lookup, invocation
LookupAndRun(i, v, body) ==
    LET ensured == [NoTrace EXCEPT !.parsed = TRUE, !.ensured = TRUE]
        looked == [ensured EXCEPT !.looked = TRUE]
        invoked == [looked EXCEPT !.invoked = TRUE]
        WrapperKindOf ==
            CASE body.t = "component" -> "component"
              [] body.t = "modal" -> "modal"
              [] body.t = "command" /\ body.ctype = "ChatInput" -> "command"
              [] body.t = "command" /\ body.ctype \in {"User", "Message"} -> "context"
              [] OTHER -> "raw"
        LabelOf ==
            CASE body.t = "component" -> "Component"
              [] body.t = "modal" -> "Modal"
              [] OTHER -> "Command"
        HandlerOf ==
            IF body.t = "command" THEN MapGet(commands, body.name).handler
            ELSE MapGet(RegistryOf(body), body.name)
    IN  IF body.t = "command" /\ Falsy(body.name)
        THEN Resolved(i, v, body, ensured, NoOutcome,
                      ErrorResult(400, "Invalid application command interaction", "", ""))
        ELSE IF ~MapHas(RegistryOf(body), body.name)
        THEN Resolved(i, v, body, looked, NoOutcome,
                      ErrorResult(404, "No handler registered", body.name, ""))
        ELSE IF ~IsFunction(HandlerOf)
        THEN Resolved(i, v, body, looked, NoOutcome,
                      HandlerFailed(LabelOf, body.name,
                                    [kind |-> "Error", name |-> "TypeError",
                                     message |-> "handler is not a function"]))
        ELSE \E o \in OutcomesOf(WrapperKindOf) :
                Resolved(i, v, body, invoked, o,
                         DispatchOutcome(LabelOf, body.name, o))

\* every caller starting a load of its own
StartsLoadAlways(kind) == TRUE

\* if (!this.loadXPromise)
StartsLoad(kind) == Promise(kind) = 0

\* ensureCommandsLoaded / ensureComponentsLoaded when a load is needed: the
\* first caller starts loadXFromDirectory and stores the promise, everyone
\* awaits the stored promise
AwaitLoad(i, v, t, kind) ==
    LET start == StartsLoad(kind)
        p == IF start THEN Len(loads) + 1 ELSE Promise(kind)
    IN  /\ start => Len(loads) < MaxLoads
        /\ loads' = IF start THEN Append(loads, Task(kind, "lazy", "stat", FALSE))
                    ELSE loads
        /\ loadCommandsPromise' = IF kind = "commands" THEN p ELSE loadCommandsPromise
        /\ loadComponentsPromise' = IF kind = "components" THEN p ELSE loadComponentsPromise
        /\ reqs' = IF i > Len(reqs)
                   THEN Append(reqs, InFlight("awaitLoad", t, p, Hdr("", "", "")))
                   ELSE [reqs EXCEPT ![i] = InFlight("awaitLoad", t, p,
                                                     [reqs[i].hdr EXCEPT !.verified = v])]
        /\ UNCHANGED <<commands, componentHandlers, modalHandlers, commandsLoaded,
                       componentsLoaded, commandsDirectory, componentsDirectory,
                       fs, finished, manual, session>>

\* a check that lets a caller through while another caller's load is pending
NeedsLoadFirstOnly(kind) ==
    ~(Loaded(kind) \/ Directory(kind) = "null") /\ Promise(kind) = 0

\* a check that does not look at the loaded flag
NeedsLoadUnflagged(kind) == Directory(kind) # "null"

\* if (this.xLoaded || this.xDirectory === null) return;
NeedsLoad(kind) == ~(Loaded(kind) \/ Directory(kind) = "null")

EnsureThen(i, v, body, kind) ==
    IF NeedsLoad(kind) THEN AwaitLoad(i, v, body.t, kind) ELSE LookupAndRun(i, v, body)

\* a dispatcher without the Ping branch
IsPingNever(body) == FALSE

\* interaction.type === InteractionType.Ping
IsPing(body) == body.t = "ping"

\* JSON.parse and the branches of handleRequest on interaction.type
Classify(i, v, body) ==
    LET parsed == [NoTrace EXCEPT !.parsed = TRUE]
    IN  CASE body.t = "badjson" ->
               Resolved(i, v, body, parsed, NoOutcome,
                        ErrorResult(400, "Invalid interaction payload", "", ""))
          [] body.t = "jsonnull" -> Rejected(i, v, body, parsed)
          [] IsPing(body) ->
               Resolved(i, v, body, parsed, NoOutcome, EnvelopeResult(Env("Pong", NoData)))
          [] body.t = "command" -> EnsureThen(i, v, body, "commands")
          [] body.t \in {"component", "modal"} ->
               IF Falsy(body.name)
               THEN Resolved(i, v, body, parsed, NoOutcome,
                             ErrorResult(400, "interaction is missing a custom_id", "", ""))
               ELSE EnsureThen(i, v, body, "components")
          [] OTHER ->
               Resolved(i, v, body, parsed, NoOutcome,
                        ErrorResult(400, "Unsupported interaction type", "", ""))

\* handleRequest up to its first await
Arrive(sig, ts) ==
    /\ ~finished.valid
    /\ Len(reqs) < MaxReq
    /\ IF Falsy(sig) \/ Falsy(ts)
       THEN /\ finished' = Fin(sig, ts, "", NoBody, NoTrace, NoOutcome, "resolved",
                               ErrorResult(401, "Missing signature headers", "", ""))
            /\ UNCHANGED reqs
       ELSE /\ reqs' = Append(reqs, InFlight("verify", "", 0, Hdr(sig, ts, "")))
            /\ UNCHANGED finished
    /\ UNCHANGED <<commands, componentHandlers, modalHandlers, commandsLoaded,
                   componentsLoaded, loadCommandsPromise, loadComponentsPromise,
                   commandsDirectory, componentsDirectory, fs, loads, manual, session>>

\* verifyKeyImpl settles; the body is what JSON.parse then finds
Verified(i, v, body) ==
    /\ ~finished.valid
    /\ i \in 1..Len(reqs)
    /\ reqs[i].pc = "verify"
    /\ IF v = "throws"
       THEN SettleWith(i, Fin(reqs[i].hdr.sig, reqs[i].hdr.ts, v, NoBody, NoTrace,
                              NoOutcome, "rejected", NoResult))
       ELSE IF ~VerifiedOk(v)
       THEN SettleWith(i, Fin(reqs[i].hdr.sig, reqs[i].hdr.ts, v, NoBody, NoTrace,
                              NoOutcome, "resolved",
                              ErrorResult(401, "Signature verification failed", "", "")))
       ELSE Classify(i, v, body)

\* the awaited load promise has settled; the rest of the payload is read
Resume(i) ==
    /\ ~finished.valid
    /\ i \in 1..Len(reqs)
    /\ reqs[i].pc = "awaitLoad"
    /\ reqs[i].t # "registerCommands"
    /\ loads[reqs[i].await].pc \in {"done", "failed"}
    /\ \E body \in {b \in Bodies : /\ b.t = reqs[i].t
                                   /\ b.t \in {"component", "modal"} => ~Falsy(b.name)} :
          LET v == reqs[i].hdr.verified
          IN  IF loads[reqs[i].await].pc = "failed"
              THEN Rejected(i, v, body, [NoTrace EXCEPT !.parsed = TRUE, !.ensured = TRUE])
              ELSE LookupAndRun(i, v, body)

(***************************************************************************)
(* registerCommands(botToken) without a command list: the other caller of  *)
(* ensureCommandsLoaded                                                    *)
(***************************************************************************)
RegisterFin(settled) ==
    [Fin("", "", "", NoBody, NoTrace, NoOutcome, settled, NoResult)
        EXCEPT !.call = "registerCommands"]

\* listCommandData() must be non-empty, then the PUT succeeds or fails
RegisterSettles(i, reqs1) ==
    /\ reqs' = reqs1
    /\ \E ok \in BOOLEAN :
          finished' = RegisterFin(IF Len(commands) > 0 /\ ok THEN "resolved"
                                  ELSE "rejected")
    /\ UNCHANGED <<commands, componentHandlers, modalHandlers, commandsLoaded,
                   componentsLoaded, loadCommandsPromise, loadComponentsPromise,
                   commandsDirectory, componentsDirectory, fs, loads, manual, session>>

RegisterCommands ==
    /\ ~finished.valid
    /\ Len(reqs) < MaxReq
    /\ IF NeedsLoad("commands")
       THEN AwaitLoad(Len(reqs) + 1, "", "registerCommands", "commands")
       ELSE RegisterSettles(0, reqs)

RegisterResume(i) ==
    /\ ~finished.valid
    /\ i \in 1..Len(reqs)
    /\ reqs[i].pc = "awaitLoad"
    /\ reqs[i].t = "registerCommands"
    /\ loads[reqs[i].await].pc \in {"done", "failed"}
    /\ IF loads[reqs[i].await].pc = "failed"
       THEN /\ reqs' = Remove(reqs, i)
            /\ finished' = RegisterFin("rejected")
            /\ UNCHANGED <<commands, componentHandlers, modalHandlers, commandsLoaded,
                           componentsLoaded, loadCommandsPromise, loadComponentsPromise,
                           commandsDirectory, componentsDirectory, fs, loads, manual, session>>
       ELSE RegisterSettles(i, Remove(reqs, i))

\* the caller takes the settled promise
Deliver ==
    /\ finished.valid
    /\ finished' = NoFinished
    /\ UNCHANGED <<commands, componentHandlers, modalHandlers, commandsLoaded,
                   componentsLoaded, loadCommandsPromise, loadComponentsPromise,
                   commandsDirectory, componentsDirectory, fs, loads, reqs, manual, session>>


(***************************************************************************)
(* loadCommandsFromDirectory / loadComponentsFromDirectory, one action per *)
(* stretch between two awaits                                              *)
(***************************************************************************)
\* task t moves on; nowLoaded says that this stretch sets the loaded flag
TaskStep(t, task, nowLoaded) ==
    \* loadXFromDirectory().then(() => { this.loadXPromise = null; })
    LET PromiseAfter(kind, current) ==
            IF task.kind = kind /\ task.origin = "lazy" /\ task.pc = "done" THEN 0
            ELSE current
    IN  /\ loads' = [loads EXCEPT ![t] = task]
        /\ commandsLoaded' = (commandsLoaded \/ (task.kind = "commands" /\ nowLoaded))
        /\ componentsLoaded' = (componentsLoaded
                                  \/ (task.kind = "components" /\ nowLoaded))
        /\ loadCommandsPromise' = PromiseAfter("commands", loadCommandsPromise)
        /\ loadComponentsPromise' = PromiseAfter("components", loadComponentsPromise)

\* an application calls loadXFromDirectory() itself
StartExplicit(kind) ==
    /\ ~finished.valid
    /\ Cardinality({t \in 1..Len(loads) : loads[t].origin = "explicit"}) < MaxExplicit
    /\ Len(loads) < MaxLoads
    /\ loads' = Append(loads, IF Directory(kind) = "null"
                              THEN Task(kind, "explicit", "failed", Loaded(kind))
                              ELSE Task(kind, "explicit", "stat", Loaded(kind)))
    /\ UNCHANGED <<commands, componentHandlers, modalHandlers, commandsLoaded,
                   componentsLoaded, loadCommandsPromise, loadComponentsPromise,
                   commandsDirectory, componentsDirectory, fs, reqs, finished,
                   manual, session>>

\* await this.pathExists(targetDirectory): the directory is looked at
LoadStat(t) ==
    /\ ~finished.valid
    /\ t \in 1..Len(loads)
    /\ loads[t].pc = "stat"
    /\ LET kind == loads[t].kind
       IN  \E d \in (IF fs[kind].observed THEN {fs[kind]} ELSE IF kind = "commands" THEN CommandDirs
                            ELSE ComponentDirs) :
              /\ fs' = [fs EXCEPT ![kind] = d]
              /\ IF ~d.exists
                 THEN TaskStep(t, [loads[t] EXCEPT !.pc = "done"], TRUE)
                 ELSE TaskStep(t, [loads[t] EXCEPT !.pc = "readdir"], FALSE)
    /\ UNCHANGED <<commands, componentHandlers, modalHandlers, commandsDirectory,
                   componentsDirectory, reqs, finished, manual, session>>

\* await this.collectModuleFiles(targetDirectory): the traversal
LoadReaddir(t) ==
    /\ ~finished.valid
    /\ t \in 1..Len(loads)
    /\ loads[t].pc = "readdir"
    /\ LET d == fs[loads[t].kind]
       IN  IF ~d.readable
           THEN TaskStep(t, [loads[t] EXCEPT !.pc = "failed"], FALSE)
           ELSE IF d.files = <<>>
           THEN TaskStep(t, [loads[t] EXCEPT !.pc = "done", !.traversed = TRUE], TRUE)
           ELSE TaskStep(t, [loads[t] EXCEPT !.pc = "import", !.i = 1,
                                             !.traversed = TRUE], FALSE)
    /\ UNCHANGED <<commands, componentHandlers, modalHandlers, commandsDirectory,
                   componentsDirectory, fs, reqs, finished, manual, session>>

\* await this.importXModule(file) and the registrations that follow it
LoadImport(t) ==
    /\ ~finished.valid
    /\ t \in 1..Len(loads)
    /\ loads[t].pc = "import"
    /\ LET kind == loads[t].kind
           file == fs[kind].files[loads[t].i]
           R == IF kind = "commands" THEN loadCommandFile(CurReg, file)
                ELSE loadComponentFile(CurReg, file)
           last == loads[t].i = Len(fs[kind].files)
       IN  /\ commands' = R.commands
           /\ componentHandlers' = R.components
           /\ modalHandlers' = R.modals
           /\ IF R.threw
              THEN TaskStep(t, [loads[t] EXCEPT !.pc = "failed", !.i = 0], FALSE)
              ELSE IF last
              THEN TaskStep(t, [loads[t] EXCEPT !.pc = "done", !.i = 0], TRUE)
              ELSE TaskStep(t, [loads[t] EXCEPT !.i = @ + 1], FALSE)
    /\ UNCHANGED <<commandsDirectory, componentsDirectory, fs, reqs, finished, manual, session>>

(***************************************************************************)
(* Manual registration                                                     *)
(***************************************************************************)
ManualItems == {Item(n, h) : n \in {"a", ""}, h \in {"h1", "notfn"}}

Manual(R) ==
    /\ ~finished.valid
    /\ manual < MaxManual
    /\ manual' = manual + 1
    /\ commands' = R.commands
    /\ componentHandlers' = R.components
    /\ modalHandlers' = R.modals
    /\ UNCHANGED <<commandsLoaded, componentsLoaded, loadCommandsPromise,
                   loadComponentsPromise, commandsDirectory, componentsDirectory,
                   fs, loads, reqs, finished, session>>

UseCommand(command) == Manual(useCommand(CurReg, command))
UseComponent(component) == Manual(useComponent(CurReg, component))
UseModal(modal) == Manual(useModal(CurReg, modal))

(***************************************************************************)
(* The client                                                              *)
(***************************************************************************)
\* new MiniInteraction(options): a directory option of false disables it
Init ==
    /\ commands = <<>>
    /\ componentHandlers = <<>>
    /\ modalHandlers = <<>>
    /\ commandsLoaded = FALSE
    /\ componentsLoaded = FALSE
    /\ loadCommandsPromise = 0
    /\ loadComponentsPromise = 0
    /\ commandsDirectory \in {"null", "dir"}
    /\ componentsDirectory \in {"null", "dir"}
    /\ fs = [commands |-> Unobserved, components |-> Unobserved]
    /\ loads = <<>>
    /\ reqs = <<>>
    /\ finished = NoFinished
    /\ manual = 0
    /\ session = NewSession("command", NoHelpers)

\* the client serving traffic: requests, registerCommands and the lazy loads
Next ==
    \/ \E sig \in {"", "present"}, ts \in {"", "present"} : Arrive(sig, ts)
    \/ \E i \in 1..MaxReq, v \in {"true", "false", "throws"}, body \in Bodies :
          Verified(i, v, body)
    \/ \E i \in 1..MaxReq : Resume(i)
    \/ RegisterCommands
    \/ \E i \in 1..MaxReq : RegisterResume(i)
    \/ Deliver
    \/ \E t \in 1..MaxLoads : LoadStat(t)
    \/ \E t \in 1..MaxLoads : LoadReaddir(t)
    \/ \E t \in 1..MaxLoads : LoadImport(t)

Spec == Init /\ [][Next]_vars

\* the application setting the client up: manual registration and explicit
\* loadXFromDirectory calls
LoadNext ==
    \/ \E kind \in {"commands", "components"} : StartExplicit(kind)
    \/ \E t \in 1..MaxLoads : LoadStat(t)
    \/ \E t \in 1..MaxLoads : LoadReaddir(t)
    \/ \E t \in 1..MaxLoads : LoadImport(t)
    \/ \E command \in {Cmd(n, h, c, <<>>) :
                          n \in {"a", ""}, h \in {"h1", "notfn"},
                          c \in {<<>>, <<Item("b", "h1")>>, <<Item("", "h1")>>}} :
          UseCommand(command)
    \/ \E component \in ManualItems : UseComponent(component)
    \/ \E modal \in ManualItems : UseModal(modal)

SpecLoad == Init /\ [][LoadNext]_vars

WrapperInit ==
    /\ commands = <<>>
    /\ componentHandlers = <<>>
    /\ modalHandlers = <<>>
    /\ commandsLoaded = FALSE
    /\ componentsLoaded = FALSE
    /\ loadCommandsPromise = 0
    /\ loadComponentsPromise = 0
    /\ commandsDirectory = "null"
    /\ componentsDirectory = "null"
    /\ fs = [commands |-> Unobserved, components |-> Unobserved]
    /\ loads = <<>>
    /\ reqs = <<>>
    /\ finished = NoFinished
    /\ manual = 0
    /\ session \in {NewSession(k, h) :
                       k \in WrapperKinds,
                       h \in {NoHelpers,
                              [sendFollowUp |-> TRUE, onAck |-> TRUE, canRespond |-> FALSE],
                              [sendFollowUp |-> TRUE, onAck |-> TRUE, canRespond |-> TRUE]}}

SpecWrapper == WrapperInit /\ [][WrapperNext]_vars

(***************************************************************************)
(* The message-data normaliser on its own.  A flags argument is undefined, *)
(* one flag or an array of flags; components are plain JSON objects or     *)
(* builders (objects with toJSON), action rows holding further components. *)
(* The repository holds three versions of the helper file.                 *)
(***************************************************************************)
SuppressEmbeds == 4

Bits == {SuppressEmbeds, Ephemeral, IsComponentsV2}

NoFlags == [kind |-> "undefined", value |-> 0, list |-> <<>>]
SingleFlag(f) == [kind |-> "single", value |-> f, list |-> <<>>]
FlagArray(list) == [kind |-> "array", value |-> 0, list |-> list]

SeqsUpTo(S, n) == UNION {[1..k -> S] : k \in 0..n}

\* flags.reduce((acc, flag) => acc | flag, 0)
RECURSIVE reduceFlags(_, _)
reduceFlags(list, acc) ==
    IF list = <<>> THEN acc ELSE reduceFlags(Tail(list), BitOr(acc, Head(list)))

\* the versions that accept an array of flags
normaliseMessageFlagsArray(flags) ==
    IF flags.kind = "undefined" THEN Undef
    ELSE IF flags.kind = "array"
    THEN IF Len(flags.list) = 0 THEN Undef ELSE reduceFlags(flags.list, 0)
    ELSE flags.value

COMPONENTS_V2_TYPES ==
    {"Container", "Section", "TextDisplay", "MediaGallery", "File", "Separator",
     "Thumbnail"}

Comp(type, builder, kids) == [type |-> type, builder |-> builder, components |-> kids]

NoComponents == [present |-> FALSE, list |-> <<>>]
Components(list) == [present |-> TRUE, list |-> list]

\* toJSON() of a builder gives the plain object
resolveComponentLike(component) ==
    IF component.builder THEN [component EXCEPT !.builder = FALSE] ELSE component

RECURSIVE componentUsesComponentsV2(_)
RECURSIVE containsComponentsV2(_)
containsComponentsV2(components) ==
    \E i \in 1..Len(components) : componentUsesComponentsV2(components[i])

componentUsesComponentsV2(component) ==
    LET resolved == resolveComponentLike(component)
    IN  IF resolved.type \in COMPONENTS_V2_TYPES THEN TRUE
        ELSE IF resolved.type = "ActionRow"
        THEN containsComponentsV2(resolved.components)
        ELSE FALSE

Normalised(flags, components) == [flags |-> flags, components |-> components]

resolveAll(components) ==
    IF components.present
    THEN Components([i \in 1..Len(components.list) |->
                        resolveComponentLike(components.list[i])])
    ELSE components

\* the version with resolveJSONEncodable: builders are resolved and the flags
\* normalised; containsComponentsV2 is never called
normaliseInteractionMessageData_a(flags, components) ==
    Normalised(normaliseMessageFlagsArray(flags), resolveAll(components))

\* the version that resolves builders and then looks for Components V2
normaliseInteractionMessageData_b(flags, components) ==
    LET normalisedComponents == resolveAll(components)
        usesComponentsV2 == IF normalisedComponents.present
                            THEN containsComponentsV2(normalisedComponents.list)
                            ELSE FALSE
        normalisedFlags == normaliseMessageFlagsArray(flags)
        finalFlags == IF usesComponentsV2
                      THEN BitOr(IF normalisedFlags = Undef THEN 0
                                 ELSE normalisedFlags, IsComponentsV2)
                      ELSE normalisedFlags
    IN  Normalised(finalFlags, normalisedComponents)

\* the version of utils/interactionMessageHelpers.ts: one flag at most
normaliseInteractionMessageData_c(flags, components) ==
    LET usesComponentsV2 == IF components.present
                            THEN containsComponentsV2(components.list)
                            ELSE FALSE
        normalisedFlags == normaliseMessageFlags(IF flags.kind = "undefined"
                                                 THEN Undef ELSE flags.value)
        finalFlags == IF usesComponentsV2
                      THEN BitOr(IF normalisedFlags = Undef THEN 0
                                 ELSE normalisedFlags, IsComponentsV2)
                      ELSE normalisedFlags
    IN  Normalised(finalFlags, components)

NormaliseCall(op, flags, components) ==
    [pc |-> "call", op |-> op, flags |-> flags, components |-> components,
     out |-> Undef, a |-> Normalised(Undef, NoComponents), b |-> Normalised(Undef, NoComponents), c |-> Normalised(Undef, NoComponents)]

\* normaliseMessageFlags(flags)
NormaliseFlags ==
    /\ session.pc = "call"
    /\ session.op = "flags"
    /\ session' = [session EXCEPT !.pc = "done",
                                   !.out = normaliseMessageFlagsArray(session.flags)]
    /\ UNCHANGED clientVars

\* normaliseInteractionMessageData(data) in each version; the oldest one is
\* typed for a single flag and is given no array
NormaliseData ==
    /\ session.pc = "call"
    /\ session.op = "data"
    /\ session' = [session EXCEPT
                     !.pc = "done",
                     !.a = normaliseInteractionMessageData_a(session.flags,
                                                             session.components),
                     !.b = normaliseInteractionMessageData_b(session.flags,
                                                             session.components),
                     !.c = IF session.flags.kind = "array" THEN Normalised(Undef, NoComponents)
                           ELSE normaliseInteractionMessageData_c(session.flags,
                                                                  session.components)]
    /\ UNCHANGED clientVars

NormaliseNext == NormaliseFlags \/ NormaliseData

NormaliseInit ==
    /\ commands = <<>>
    /\ componentHandlers = <<>>
    /\ modalHandlers = <<>>
    /\ commandsLoaded = FALSE
    /\ componentsLoaded = FALSE
    /\ loadCommandsPromise = 0
    /\ loadComponentsPromise = 0
    /\ commandsDirectory = "null"
    /\ componentsDirectory = "null"
    /\ fs = [commands |-> Unobserved, components |-> Unobserved]
    /\ loads = <<>>
    /\ reqs = <<>>
    /\ finished = NoFinished
    /\ manual = 0
    /\ LET Leaves == {Comp(t, b, <<>>) : t \in {"Button", "TextDisplay"}, b \in BOOLEAN}
           Rows == {Comp("ActionRow", b, kids) :
                      b \in BOOLEAN, kids \in SeqsUpTo(Leaves, MaxKids)}
           ComponentInputs ==
               {NoComponents}
               \cup {Components(l) : l \in SeqsUpTo(Leaves \cup Rows, MaxComps)}
       IN  session \in {NormaliseCall("flags", f, NoComponents) :
                          f \in {NoFlags} \cup {SingleFlag(b) : b \in Bits}
                                  \cup {FlagArray(l) : l \in SeqsUpTo(Bits, MaxFlags)}}
                        \cup {NormaliseCall("data", f, c) :
                                f \in {NoFlags, SingleFlag(Ephemeral),
                                       SingleFlag(IsComponentsV2),
                                       FlagArray(<<Ephemeral, SuppressEmbeds>>)},
                                c \in ComponentInputs}

SpecNormalise == NormaliseInit /\ [][NormaliseNext]_vars

(***************************************************************************)
(* The registration methods on their own: the application calls            *)
(* useCommand, useComponent and useModal in any order, with repeated keys, *)
(* differing handlers and invalid arguments.  The calls made are kept, in  *)
(* order, with whether each one threw.                                     *)
(***************************************************************************)
RegistryItems ==
    { Item("a", "h1"), Item("a", "h2"), Item("b", "h1"), Item("", "h1"),
      Item("a", "notfn") }

Use(op, arg, R) ==
    /\ manual < MaxUses
    /\ manual' = manual + 1
    /\ session' = Append(session, [op |-> op, arg |-> arg, threw |-> R.threw])
    /\ commands' = R.commands
    /\ componentHandlers' = R.components
    /\ modalHandlers' = R.modals
    /\ UNCHANGED <<commandsLoaded, componentsLoaded, loadCommandsPromise,
                   loadComponentsPromise, commandsDirectory, componentsDirectory,
                   fs, loads, reqs, finished>>

CallUseCommand(command) == Use("useCommand", command, useCommand(CurReg, command))
CallUseComponent(component) ==
    Use("useComponent", component, useComponent(CurReg, component))
CallUseModal(modal) == Use("useModal", modal, useModal(CurReg, modal))

RegistryNext ==
    \/ \E command \in { Cmd("a", "h1", <<>>, <<>>),
                         Cmd("a", "h2", <<Item("a", "h2")>>, <<>>),
                         Cmd("a", "h2", <<Item("b", "h1"), Item("", "h1")>>, <<>>),
                         Cmd("a", "h1", <<>>, <<Item("a", "h1")>>),
                         Cmd("b", "notfn", <<>>, <<>>),
                         Cmd("", "h1", <<>>, <<>>) } : CallUseCommand(command)
    \/ \E component \in RegistryItems : CallUseComponent(component)
    \/ \E modal \in RegistryItems : CallUseModal(modal)

RegistryInit ==
    /\ commands = <<>>
    /\ componentHandlers = <<>>
    /\ modalHandlers = <<>>
    /\ commandsLoaded = FALSE
    /\ componentsLoaded = FALSE
    /\ loadCommandsPromise = 0
    /\ loadComponentsPromise = 0
    /\ commandsDirectory = "null"
    /\ componentsDirectory = "null"
    /\ fs = [commands |-> Unobserved, components |-> Unobserved]
    /\ loads = <<>>
    /\ reqs = <<>>
    /\ finished = NoFinished
    /\ manual = 0
    /\ session = <<>>

SpecRegistry == RegistryInit /\ [][RegistryNext]_vars

(***************************************************************************)
(* The data helpers on their own: the select-menu getters of a component   *)
(* interaction, the option resolver of a command interaction and the       *)
(* directory resolver of the client, each applied to its arguments.        *)
(***************************************************************************)
\* an entry of interaction.data.resolved, of kind "undefined" when missing;
\* member says that a resolved user comes with its member data, type is the
\* tag a mentionable result puts on it
Entity(kind, id) == [kind |-> kind, id |-> id, member |-> FALSE, type |-> ""]

\* one map of the resolved data, undefined when the field is absent
Records(kind, defined, ids) == [kind |-> kind, defined |-> defined, ids |-> ids]

\* interaction.data.resolved, undefined when absent
ResolvedData(defined, roles, users, members, channels, attachments) ==
    [defined |-> defined,
     roles |-> Records("role", defined /\ roles # {"undefined"}, roles),
     users |-> Records("user", defined /\ users # {"undefined"}, users),
     members |-> Records("member", defined /\ members # {"undefined"}, members),
     channels |-> Records("channel", defined /\ channels # {"undefined"}, channels),
     attachments |-> Records("attachment", defined /\ attachments # {"undefined"},
                             attachments)]

\* records?.[id]
getResolvedRecord(records, id) ==
    IF records.defined /\ id \in records.ids THEN Entity(records.kind, id)
    ELSE Entity("undefined", "")

\* what a helper call gives: the value it returns or the error it throws
Result(value) == [threw |-> FALSE, error |-> "", value |-> value]
Failure(message) == [threw |-> TRUE, error |-> message, value |-> Entity("undefined", "")]

\* getRoles without the check that resolved roles are there
getRolesUnguarded(values, resolved) ==
    IF ~values.defined THEN Result(<<>>)
    ELSE IF ~resolved.roles.defined /\ values.ids # <<>>
    THEN Failure("TypeError: Cannot read properties of undefined")
    ELSE LET found(id) == getResolvedRecord(resolved.roles, id).kind # "undefined"
             ids == SelectSeq(values.ids, found)
         IN  Result([i \in 1..Len(ids) |-> getResolvedRecord(resolved.roles, ids[i])])

getRoles(values, resolved) ==
    IF ~values.defined THEN Result(<<>>)
    ELSE IF ~resolved.roles.defined THEN Result(<<>>)
    ELSE LET found(id) == getResolvedRecord(resolved.roles, id).kind # "undefined"
             ids == SelectSeq(values.ids, found)
         IN  Result([i \in 1..Len(ids) |-> getResolvedRecord(resolved.roles, ids[i])])

getChannels(values, resolved) ==
    IF ~values.defined THEN Result(<<>>)
    ELSE IF ~resolved.channels.defined THEN Result(<<>>)
    ELSE LET found(id) == getResolvedRecord(resolved.channels, id).kind # "undefined"
             ids == SelectSeq(values.ids, found)
         IN  Result([i \in 1..Len(ids) |-> getResolvedRecord(resolved.channels, ids[i])])

getUsers(values, resolved) ==
    IF ~values.defined THEN Result(<<>>)
    ELSE IF ~resolved.users.defined THEN Result(<<>>)
    ELSE LET found(id) == getResolvedRecord(resolved.users, id).kind # "undefined"
             ids == SelectSeq(values.ids, found)
         IN  Result([i \in 1..Len(ids) |->
                       [getResolvedRecord(resolved.users, ids[i]) EXCEPT
                          !.member = getResolvedRecord(resolved.members, ids[i]).kind
                                     # "undefined"]])

getMentionables(values, resolved) ==
    IF ~values.defined THEN Result(<<>>)
    ELSE IF ~resolved.defined THEN Result(<<>>)
    ELSE LET role(id) == getResolvedRecord(resolved.roles, id)
             user(id) == getResolvedRecord(resolved.users, id)
             found(id) == role(id).kind # "undefined" \/ user(id).kind # "undefined"
             ids == SelectSeq(values.ids, found)
         IN  Result([i \in 1..Len(ids) |->
                       IF role(ids[i]).kind # "undefined"
                       THEN [role(ids[i]) EXCEPT !.type = "role"]
                       ELSE [user(ids[i]) EXCEPT
                               !.type = "user",
                               !.member = getResolvedRecord(resolved.members, ids[i]).kind
                                          # "undefined"]])

\* an option of interaction.data.options; a subcommand or a group carries
\* its children in options (hasOptions is FALSE when the field is absent)
Option(name, type, value, hasOptions, options) ==
    [name |-> name, type |-> type, value |-> value,
     hasOptions |-> hasOptions, options |-> options]

OPTION_TYPE_LABEL ==
    [Subcommand |-> "subcommand", SubcommandGroup |-> "subcommand group",
     String |-> "string", Integer |-> "integer", Boolean |-> "boolean",
     User |-> "user", Channel |-> "channel", Role |-> "role",
     Mentionable |-> "mentionable", Number |-> "number",
     Attachment |-> "attachment"]

\* an option tree that is never collapsed
resolveFocusedOptionsFlat(options) ==
    [subcommandGroup |-> "null", subcommand |-> "null",
     options |-> IF options.defined THEN options.list ELSE <<>>]

resolveFocusedOptions(options) ==
    IF ~options.defined \/ Len(options.list) = 0
    THEN [subcommandGroup |-> "null", subcommand |-> "null", options |-> <<>>]
    ELSE LET firstOption == options.list[1]
             children == IF firstOption.hasOptions THEN firstOption.options ELSE <<>>
         IN  IF firstOption.type = "SubcommandGroup"
             THEN IF Len(children) > 0 /\ children[1].type = "Subcommand"
                  THEN [subcommandGroup |-> firstOption.name,
                        subcommand |-> children[1].name,
                        options |-> IF children[1].hasOptions
                                    THEN children[1].options ELSE <<>>]
                  ELSE [subcommandGroup |-> firstOption.name,
                        subcommand |-> "null", options |-> <<>>]
             ELSE IF firstOption.type = "Subcommand"
             THEN [subcommandGroup |-> "null", subcommand |-> firstOption.name,
                   options |-> children]
             ELSE [subcommandGroup |-> "null", subcommand |-> "null",
                   options |-> options.list]

\* required is the argument as passed: "true", "false" or "undefined"
getSubcommand(focused, required) ==
    IF ~(focused.subcommand \in {"null", ""})
    THEN Result(Entity("value", focused.subcommand))
    ELSE IF required # "false"
    THEN Failure("Expected a subcommand to be present on this interaction")
    ELSE Result(Entity("null", ""))

getSubcommandGroup(focused, required) ==
    IF ~(focused.subcommandGroup \in {"null", ""})
    THEN Result(Entity("value", focused.subcommandGroup))
    ELSE IF required # "false"
    THEN Failure("Expected a subcommand group to be present on this interaction")
    ELSE Result(Entity("null", ""))

\* a lookup that takes an option of another type for a missing one
extractOptionAnyType(focusedOptions, name, type, required) ==
    LET named(candidate) == candidate.name = name /\ candidate.type = type
        found == SelectSeq(focusedOptions, named)
    IN  IF Len(found) = 0
        THEN IF required
             THEN Failure("Required " \o OPTION_TYPE_LABEL[type] \o " option \""
                          \o name \o "\" is missing")
             ELSE Result(Option("", "null", "", FALSE, <<>>))
        ELSE Result(found[1])

\* the option of that name among the focused ones, null when there is none
extractOption(focusedOptions, name, type, required) ==
    LET named(candidate) == candidate.name = name
        found == SelectSeq(focusedOptions, named)
    IN  IF Len(found) = 0
        THEN IF required
             THEN Failure("Required " \o OPTION_TYPE_LABEL[type] \o " option \""
                          \o name \o "\" is missing")
             ELSE Result(Option("", "null", "", FALSE, <<>>))
        ELSE IF found[1].type # type
        THEN Failure("Option \"" \o name \o "\" is a "
                     \o OPTION_TYPE_LABEL[found[1].type] \o ", expected "
                     \o OPTION_TYPE_LABEL[type])
        ELSE Result(found[1])

\* getString, getInteger, getNumber and getBoolean, each with its own type
getValue(type, focusedOptions, name, required) ==
    LET option == extractOption(focusedOptions, name, type, required = "true")
    IN  IF option.threw THEN option
        ELSE IF option.value.type = "null" THEN Result(Entity("null", ""))
        ELSE Result(Entity("value", option.value.value))

resolveUser(resolved, id) ==
    LET user == getResolvedRecord(resolved.users, id)
    IN  IF user.kind = "undefined" THEN Entity("null", "")
        ELSE [user EXCEPT
                !.member = getResolvedRecord(resolved.members, id).kind # "undefined"]

getUser(resolved, focusedOptions, name, required) ==
    LET option == extractOption(focusedOptions, name, "User", required = "true")
        resolvedUser == resolveUser(resolved, option.value.value)
    IN  IF option.threw THEN option
        ELSE IF option.value.type = "null" THEN Result(Entity("null", ""))
        ELSE IF resolvedUser.kind = "null"
        THEN IF required = "true"
             THEN Failure("Resolved data for user option \"" \o name \o "\" is missing")
             ELSE Result(Entity("null", ""))
        ELSE Result(resolvedUser)

\* getRole, getChannel and getAttachment, each with its type and its records
getRecord(type, records, focusedOptions, name, required) ==
    LET option == extractOption(focusedOptions, name, type, required = "true")
        entity == getResolvedRecord(records, option.value.value)
    IN  IF option.threw THEN option
        ELSE IF option.value.type = "null" THEN Result(Entity("null", ""))
        ELSE IF entity.kind = "undefined"
        THEN IF required = "true"
             THEN Failure("Resolved data for " \o OPTION_TYPE_LABEL[type]
                          \o " option \"" \o name \o "\" is missing")
             ELSE Result(Entity("null", ""))
        ELSE Result(entity)

\* a lookup that tries the users before the roles
getMentionableUserFirst(resolved, focusedOptions, name, required) ==
    LET option == extractOption(focusedOptions, name, "Mentionable", required = "true")
        role == getResolvedRecord(resolved.roles, option.value.value)
        user == resolveUser(resolved, option.value.value)
    IN  IF option.threw THEN option
        ELSE IF option.value.type = "null" THEN Result(Entity("null", ""))
        ELSE IF user.kind # "null" THEN Result([user EXCEPT !.type = "user"])
        ELSE IF role.kind # "undefined" THEN Result([role EXCEPT !.type = "role"])
        ELSE IF required = "true"
        THEN Failure("Resolved data for mentionable option \"" \o name \o "\" is missing")
        ELSE Result(Entity("null", ""))

getMentionable(resolved, focusedOptions, name, required) ==
    LET option == extractOption(focusedOptions, name, "Mentionable", required = "true")
        role == getResolvedRecord(resolved.roles, option.value.value)
        user == resolveUser(resolved, option.value.value)
    IN  IF option.threw THEN option
        ELSE IF option.value.type = "null" THEN Result(Entity("null", ""))
        ELSE IF role.kind # "undefined" THEN Result([role EXCEPT !.type = "role"])
        ELSE IF user.kind # "null" THEN Result([user EXCEPT !.type = "user"])
        ELSE IF required = "true"
        THEN Failure("Resolved data for mentionable option \"" \o name \o "\" is missing")
        ELSE Result(Entity("null", ""))

\* path.resolve(from, to): an absolute path is the sequence of its segments,
\* to is a relative path given by its segments
RECURSIVE resolve(_, _)
resolve(from, to) ==
    IF to = <<>> THEN from
    ELSE resolve(IF to[1] = "." THEN from
                 ELSE IF to[1] # ".." THEN Append(from, to[1])
                 ELSE IF from = <<>> THEN from
                 ELSE SubSeq(from, 1, Len(from) - 1),
                 Tail(to))

\* resolveDirectory(defaultFolder, overrideDirectory) in the project root
\* /app; an override is undefined or a path, absolute or relative, given by
\* its segments; exists are the candidates existsSync finds, by position
resolveDirectory(defaultFolder, overrideDirectory, exists) ==
    LET projectRoot == <<"app">>
        allowedRoots == <<resolve(projectRoot, <<"src">>),
                          resolve(projectRoot, <<"dist">>)>>
        relative(from, to) ==
            LET shared == Cardinality({i \in 1..Len(from) :
                                         /\ i <= Len(to)
                                         /\ \A j \in 1..i : from[j] = to[j]})
            IN  [i \in 1..(Len(from) - shared) |-> ".."]
                \o SubSeq(to, shared + 1, Len(to))
        isWithin(parent, child) ==
            LET rel == relative(parent, resolve(<<>>, child))
            IN  rel = <<>> \/ rel[1] # ".."
        allowed(absolutePath) ==
            \E r \in 1..Len(allowedRoots) : isWithin(allowedRoots[r], absolutePath)
        trimmed == overrideDirectory.segments
        named == {i \in 1..Len(trimmed) : trimmed[i] \notin {".", ".."}}
        \* trimmed.replace(/^[./\\]+/, "")
        normalised ==
            IF named = {} THEN <<>>
            ELSE SubSeq(trimmed, CHOOSE i \in named : \A j \in named : i <= j,
                        Len(trimmed))
        \* the paths addOverrideCandidates passes to ensureWithinAllowedRoots
        overrides ==
            IF ~overrideDirectory.defined THEN <<>>
            ELSE IF overrideDirectory.absolute THEN <<trimmed>>
            ELSE IF normalised = <<>> THEN <<>>
            ELSE IF normalised[1] \in {"src", "srcx", "dist"}
            THEN <<resolve(projectRoot, normalised)>>
            ELSE [r \in 1..Len(allowedRoots) |-> resolve(allowedRoots[r], normalised)]
        pushed == overrides \o [r \in 1..Len(allowedRoots) |->
                                  resolve(allowedRoots[r], <<defaultFolder>>)]
        \* pushCandidate
        candidates ==
            LET push[i \in 0..Len(pushed)] ==
                    IF i = 0 THEN <<>>
                    ELSE IF \E j \in 1..Len(push[i - 1]) : push[i - 1][j] = pushed[i]
                    THEN push[i - 1]
                    ELSE Append(push[i - 1], pushed[i])
            IN  push[Len(pushed)]
        existing == {i \in 1..Len(candidates) : i \in exists}
    IN  IF \E i \in 1..Len(overrides) : ~allowed(overrides[i])
        THEN Failure("[MiniInteraction] Directory overrides must be located within "
                     \o "\"/app/src\" or \"/app/dist\".")
        ELSE IF existing = {} THEN Result(candidates[1])
        ELSE Result(candidates[CHOOSE i \in existing : \A j \in existing : i <= j])

\* one helper applied to the arguments of the session
HelperCall(op, result) ==
    /\ session.pc = "call"
    /\ session.op = op
    /\ session' = [session EXCEPT !.pc = "done", !.out = result]
    /\ UNCHANGED clientVars

HelperNext ==
    LET arg == session.arg
        \* new CommandInteractionOptionResolver(options, resolved)
        focused == resolveFocusedOptions(arg.options)
    IN  \/ HelperCall("getRoles", getRoles(arg.values, arg.resolved))
        \/ HelperCall("getChannels", getChannels(arg.values, arg.resolved))
        \/ HelperCall("getUsers", getUsers(arg.values, arg.resolved))
        \/ HelperCall("getMentionables", getMentionables(arg.values, arg.resolved))
        \/ HelperCall("getSubcommand", getSubcommand(focused, arg.required))
        \/ HelperCall("getSubcommandGroup", getSubcommandGroup(focused, arg.required))
        \/ HelperCall("getString",
                      getValue("String", focused.options, arg.name, arg.required))
        \/ HelperCall("getInteger",
                      getValue("Integer", focused.options, arg.name, arg.required))
        \/ HelperCall("getNumber",
                      getValue("Number", focused.options, arg.name, arg.required))
        \/ HelperCall("getBoolean",
                      getValue("Boolean", focused.options, arg.name, arg.required))
        \/ HelperCall("getUser",
                      getUser(arg.resolved, focused.options, arg.name, arg.required))
        \/ HelperCall("getRole",
                      getRecord("Role", arg.resolved.roles, focused.options,
                                arg.name, arg.required))
        \/ HelperCall("getChannel",
                      getRecord("Channel", arg.resolved.channels, focused.options,
                                arg.name, arg.required))
        \/ HelperCall("getAttachment",
                      getRecord("Attachment", arg.resolved.attachments,
                                focused.options, arg.name, arg.required))
        \/ HelperCall("getMentionable",
                      getMentionable(arg.resolved, focused.options, arg.name,
                                     arg.required))
        \/ \E exists \in SUBSET (1..4) :
              HelperCall("resolveDirectory",
                         resolveDirectory(arg.defaultFolder, arg.overrideDirectory,
                                          exists))

HelperInit ==
    /\ commands = <<>>
    /\ componentHandlers = <<>>
    /\ modalHandlers = <<>>
    /\ commandsLoaded = FALSE
    /\ componentsLoaded = FALSE
    /\ loadCommandsPromise = 0
    /\ loadComponentsPromise = 0
    /\ commandsDirectory = "null"
    /\ componentsDirectory = "null"
    /\ fs = [commands |-> Unobserved, components |-> Unobserved]
    /\ loads = <<>>
    /\ reqs = <<>>
    /\ finished = NoFinished
    /\ manual = 0
    /\ LET none == {"undefined"}
           one == {"1"}
           call(op, arg) == [pc |-> "call", op |-> op, arg |-> arg,
                             out |-> Result(Entity("undefined", ""))]
           \* select menus: the values and the resolved data of the interaction
           values == {[defined |-> FALSE, ids |-> <<>>]}
                     \cup {[defined |-> TRUE, ids |-> l] :
                             l \in SeqsUpTo({"1", "2"}, MaxValues)}
           selected ==
               {ResolvedData(FALSE, none, none, none, none, none)}
               \cup {ResolvedData(TRUE, r, u, m, c, none) :
                       r \in {none, one, {"1", "2"}}, u \in {none, one, {"1", "2"}},
                       m \in {none, one}, c \in {none, {"2"}, {"1", "2"}}}
           \* commands: the option tree, the resolved data and the arguments
           \* for a getter of type t: options named "a" of that type and of
           \* two other ones, and an option of another name
           getters == {<<"getSubcommand", "String">>, <<"getSubcommandGroup", "String">>,
                       <<"getString", "String">>, <<"getInteger", "Integer">>,
                       <<"getNumber", "Number">>, <<"getBoolean", "Boolean">>,
                       <<"getUser", "User">>, <<"getRole", "Role">>,
                       <<"getChannel", "Channel">>, <<"getAttachment", "Attachment">>,
                       <<"getMentionable", "Mentionable">>}
           basic(t) == {Option("a", u, "1", FALSE, <<>>) : u \in {t, "String", "User"}}
                       \cup {Option("b", "String", "1", FALSE, <<>>)}
           trees(t) ==
               SeqsUpTo(basic(t), MaxOptions)
               \cup {<<Option("s", "Subcommand", "", TRUE, l)>> :
                       l \in SeqsUpTo(basic(t), 1)}
               \cup {<<Option("g", "SubcommandGroup", "", TRUE,
                              <<Option("s", "Subcommand", "", TRUE, l)>>)>> :
                       l \in SeqsUpTo(basic(t), 1)}
               \cup {<<Option("s", "Subcommand", "", FALSE, <<>>)>>,
                     <<Option("g", "SubcommandGroup", "", FALSE, <<>>)>>,
                     <<Option("g", "SubcommandGroup", "", TRUE, <<>>)>>,
                     <<Option("g", "SubcommandGroup", "", TRUE,
                              <<Option("s", "Subcommand", "", FALSE, <<>>)>>)>>}
           options(t) == {[defined |-> FALSE, list |-> <<>>]}
                         \cup {[defined |-> TRUE, list |-> l] : l \in trees(t)}
           resolved ==
               {ResolvedData(FALSE, none, none, none, none, none),
                ResolvedData(TRUE, none, none, none, none, none),
                ResolvedData(TRUE, one, one, one, one, one),
                ResolvedData(TRUE, {"2"}, one, one, {"2"}, {"2"}),
                ResolvedData(TRUE, none, one, none, {}, {}),
                ResolvedData(TRUE, one, none, one, none, none)}
           \* directories: the default folder and the override
           overrides ==
               {[defined |-> FALSE, absolute |-> FALSE, segments |-> <<>>]}
               \cup {[defined |-> TRUE, absolute |-> TRUE, segments |-> l] :
                       l \in SeqsUpTo({"app", "src", "srcx", "x", ".."}, MaxSegments)}
               \cup {[defined |-> TRUE, absolute |-> FALSE, segments |-> l] :
                       l \in SeqsUpTo({".", "..", "src", "srcx", "dist", "x"},
                                      MaxSegments) \ {<<>>}}
       IN  session \in
             {call(op, [values |-> v, resolved |-> r]) :
                op \in {"getRoles", "getChannels", "getUsers", "getMentionables"},
                v \in values, r \in selected}
             \cup UNION {{call(g[1], [options |-> o, resolved |-> r, name |-> "a",
                                      required |-> q]) :
                             o \in options(g[2]), r \in resolved,
                             q \in {"undefined", "true", "false"}} : g \in getters}
             \cup {call("resolveDirectory",
                        [defaultFolder |-> f, overrideDirectory |-> o]) :
                     f \in {"commands", "components"}, o \in overrides}

SpecHelpers == HelperInit /\ [][HelperNext]_vars

(***************************************************************************)
(* SpecSessions: two handleRequest calls in flight at once.  The           *)
(* dispatcher creates one interaction object per call; the handlers'       *)
(* helper calls interleave at their awaits.  session is the pair of        *)
(* sessions, each with the helper operations its own handler has called.   *)
(***************************************************************************)
MaxTurns == 3        \* helper calls the handlers in flight make together

\* the content by which the messages of the two handlers are told apart
ContentOf(i) == IF i = 1 THEN "x" ELSE "y"

\* the response state kept in one place for all interactions instead of in
\* the locals of each factory call
HandlerCallShared(ss, i, op, a) ==
    LET w == Call(ss[i].s.w, op, a[1], a[2], a[3])
    IN  [j \in 1..Len(ss) |->
           IF j = i THEN [ss[j] EXCEPT !.s.w = w]
           ELSE [ss[j] EXCEPT !.s.w.capturedResponse = w.capturedResponse,
                              !.s.w.isDeferred = w.isDeferred,
                              !.s.w.hasResponded = w.hasResponded]]

\* a helper of the interaction object made for request i: capturedResponse,
\* isDeferred and hasResponded are locals of that one factory call
HandlerCall(ss, i, op, a) ==
    [ss EXCEPT ![i].s.w = Call(@, op, a[1], a[2], a[3])]

SessionsCall(i, op, a) ==
    /\ session[i].s.pc = "handler"
    /\ session[1].s.w.n + session[2].s.w.n < MaxTurns
    /\ op \in OpsOf(session[i].s.w.kind)
    /\ a \in CallArgs(session[i].s.w, op)
    /\ a[1] \in {NoData, MsgData(ContentOf(i))}
    /\ session' = [HandlerCall(session, i, op, a) EXCEPT ![i].ops = @ \cup {op}]
    /\ UNCHANGED clientVars

\* the handler of request i returns: the dispatcher settles that request
\* from the return value and the interaction object it made for it
SessionsReturn(i, ret) ==
    /\ session[i].s.pc = "handler"
    /\ session' = [session EXCEPT
                     ![i].s.pc = "done", ![i].s.ret = ret,
                     ![i].s.result = DispatchOutcome("Component", "a",
                                        Outcome(session[i].s.w, ret, NoThrow))]
    /\ UNCHANGED clientVars

SessionsThrow(i, e) ==
    /\ session[i].s.pc = "handler"
    /\ session' = [session EXCEPT
                     ![i].s.pc = "done", ![i].s.err = e,
                     ![i].s.result = DispatchOutcome("Component", "a",
                                        Outcome(session[i].s.w, NullEnv, e))]
    /\ UNCHANGED clientVars

SessionsNext ==
    \/ \E i \in 1..2 : \E op \in UNION {OpsOf(k) : k \in WrapperKinds} :
          \E a \in DataSet \X FlagSet \X BOOLEAN : SessionsCall(i, op, a)
    \/ \E i \in 1..2 :
          \E ret \in {NullEnv, Env("ChannelMessage", MsgData(ContentOf(i)))} :
             SessionsReturn(i, ret)
    \/ \E i \in 1..2 : SessionsThrow(i, JSError("boom"))

SessionsInit ==
    /\ commands = <<>>
    /\ componentHandlers = <<>>
    /\ modalHandlers = <<>>
    /\ commandsLoaded = FALSE
    /\ componentsLoaded = FALSE
    /\ loadCommandsPromise = 0
    /\ loadComponentsPromise = 0
    /\ commandsDirectory = "null"
    /\ componentsDirectory = "null"
    /\ fs = [commands |-> Unobserved, components |-> Unobserved]
    /\ loads = <<>>
    /\ reqs = <<>>
    /\ finished = NoFinished
    /\ manual = 0
    /\ session \in {<<[s |-> NewSession(k1, NoHelpers), ops |-> {}],
                      [s |-> NewSession(k2, NoHelpers), ops |-> {}]>> :
                       k1 \in {"command", "component"},
                       k2 \in {"component"}}

SpecSessions == SessionsInit /\ [][SessionsNext]_vars

(***************************************************************************)
(* SpecTokens: OAuthTokenStorage, with or without a MiniDatabase.  A       *)
(* database call either works or fails; MiniDatabase.set, update and       *)
(* delete report a failure by returning false (or by rejecting when        *)
(* initialize() rejects), get by returning null.  Tokens are opaque: the   *)
(* stored row is { userId, ...tokens } and getTokens picks the token       *)
(* fields out of it again.                                                 *)
(***************************************************************************)
MaxOps == 4          \* calls made on one storage

NoTokens == "null"

\* `oauth-${userId}`
Key(userId) == "oauth-" \o userId

NoRow == [userId |-> "undefined", tokens |-> NoTokens]

NewStorage(db) ==
    [db |-> db,
     inMemoryStore |-> [k \in {Key("u"), Key("v")} |-> NoTokens],
     rows |-> [k \in {Key("u"), Key("v")} |-> NoRow]]

storeTokens(st, userId, tokens, ok) ==
    LET mem == [st.inMemoryStore EXCEPT ![Key(userId)] = tokens]
        \* db.set(key, { userId, ...tokens })
        set == IF ok THEN [st.rows EXCEPT ![Key(userId)] =
                                     [userId |-> userId, tokens |-> tokens]]
               ELSE st.rows
    IN  IF st.db
        THEN [st |-> [st EXCEPT !.inMemoryStore = mem, !.rows = set],
              ok |-> ok, tokens |-> NoTokens]
        ELSE [st |-> [st EXCEPT !.inMemoryStore = mem],
              ok |-> TRUE, tokens |-> NoTokens]

getTokens(st, userId, ok) ==
    LET cached == st.inMemoryStore[Key(userId)]
        \* db.get(key): the row, or null when there is none or the read fails
        data == IF ok THEN st.rows[Key(userId)] ELSE NoRow
    IN  IF cached # NoTokens
        THEN [st |-> st, ok |-> TRUE, tokens |-> cached]
        ELSE IF st.db /\ data # NoRow
        THEN [st |-> [st EXCEPT !.inMemoryStore[Key(userId)] = data.tokens],
              ok |-> TRUE, tokens |-> data.tokens]
        ELSE [st |-> st, ok |-> TRUE, tokens |-> NoTokens]

updateTokens(st, userId, tokens, ok) ==
    LET mem == [st.inMemoryStore EXCEPT ![Key(userId)] = tokens]
        \* db.update(key, { ...tokens }): { ...existing, ...updates }, upserted
        update == IF ok THEN [st.rows EXCEPT ![Key(userId)] =
                                        [@ EXCEPT !.tokens = tokens]]
                  ELSE st.rows
    IN  IF st.db
        THEN [st |-> [st EXCEPT !.inMemoryStore = mem, !.rows = update],
              ok |-> ok, tokens |-> NoTokens]
        ELSE [st |-> [st EXCEPT !.inMemoryStore = mem],
              ok |-> TRUE, tokens |-> NoTokens]

deleteTokens(st, userId, ok) ==
    LET mem == [st.inMemoryStore EXCEPT ![Key(userId)] = NoTokens]
        \* db.delete(key)
        delete == IF ok THEN [st.rows EXCEPT ![Key(userId)] = NoRow]
                  ELSE st.rows
    IN  IF st.db
        THEN [st |-> [st EXCEPT !.inMemoryStore = mem, !.rows = delete],
              ok |-> ok, tokens |-> NoTokens]
        ELSE [st |-> [st EXCEPT !.inMemoryStore = mem],
              ok |-> TRUE, tokens |-> NoTokens]

\* one call on the storage.  reported keeps, per key, the tokens of the
\* latest storeTokens/updateTokens that returned true, forgotten when a
\* deleteTokens is issued; last is the call and what it returned
TokenCall(op, userId, tokens, r) ==
    /\ session.n < MaxOps
    /\ session' =
         [st |-> r.st,
          reported |->
             IF op \in {"storeTokens", "updateTokens"} /\ r.ok
             THEN [session.reported EXCEPT ![Key(userId)] = tokens]
             ELSE IF op = "deleteTokens"
             THEN [session.reported EXCEPT ![Key(userId)] = NoTokens]
             ELSE session.reported,
          last |-> [op |-> op, userId |-> userId, ok |-> r.ok, tokens |-> r.tokens],
          n |-> session.n + 1]
    /\ UNCHANGED clientVars

TokenNext ==
    \/ \E u \in {"u", "v"}, t \in {"t1", "t2"}, ok \in BOOLEAN :
          TokenCall("storeTokens", u, t, storeTokens(session.st, u, t, ok))
    \/ \E u \in {"u", "v"}, ok \in BOOLEAN :
          TokenCall("getTokens", u, NoTokens, getTokens(session.st, u, ok))
    \/ \E u \in {"u", "v"}, t \in {"t1", "t2"}, ok \in BOOLEAN :
          TokenCall("updateTokens", u, t, updateTokens(session.st, u, t, ok))
    \/ \E u \in {"u", "v"}, ok \in BOOLEAN :
          TokenCall("deleteTokens", u, NoTokens, deleteTokens(session.st, u, ok))

TokenInit ==
    /\ commands = <<>>
    /\ componentHandlers = <<>>
    /\ modalHandlers = <<>>
    /\ commandsLoaded = FALSE
    /\ componentsLoaded = FALSE
    /\ loadCommandsPromise = 0
    /\ loadComponentsPromise = 0
    /\ commandsDirectory = "null"
    /\ componentsDirectory = "null"
    /\ fs = [commands |-> Unobserved, components |-> Unobserved]
    /\ loads = <<>>
    /\ reqs = <<>>
    /\ finished = NoFinished
    /\ manual = 0
    /\ session \in {[st |-> NewStorage(db),
                     reported |-> [k \in {Key("u"), Key("v")} |-> NoTokens],
                     last |-> [op |-> "none", userId |-> "u", ok |-> TRUE,
                               tokens |-> NoTokens],
                     n |-> 0] : db \in BOOLEAN}

SpecTokens == TokenInit /\ [][TokenNext]_vars

(***************************************************************************)
(* Properties                                                              *)
(***************************************************************************)
Settled == finished.valid /\ finished.call = "handleRequest"

LazyLoads(kind) ==
    {t \in 1..Len(loads) : loads[t].kind = kind /\ loads[t].origin = "lazy"}

\* C1: a request without a signature or timestamp header, or one whose
\* verification returns false, gets status 401; its body is never parsed,
\* no lazy auto-discovery is started for it and no handler is invoked.
C1_Unauthorized ==
    /\ [](Settled /\ (Falsy(finished.sig) \/ Falsy(finished.ts)
                      \/ finished.verified = "false")
            => /\ finished.settled = "resolved"
               /\ finished.result.status = 401
               /\ finished.result.body.tag = "error"
               /\ finished.trace = NoTrace)
    /\ [][(/\ ~finished.valid
           /\ finished'.valid
           /\ finished'.call = "handleRequest"
           /\ (Falsy(finished'.sig) \/ Falsy(finished'.ts)
               \/ finished'.verified = "false"))
            => UNCHANGED <<loads, loadCommandsPromise, loadComponentsPromise,
                           commandsLoaded, componentsLoaded, registries>>]_vars

\* a request whose verification returned false was answered with 401 while a
\* commands directory was still waiting for its lazy load
C1_Witness ==
    /\ Settled
    /\ finished.verified = "false"
    /\ finished.result.status = 401
    /\ commandsDirectory = "dir"
    /\ ~commandsLoaded
    /\ loads = <<>>

\* C2: handleRequest never propagates an exception: its promise always
\* resolves with a result (also when the verification function throws, the
\* lazy auto-discovery fails or a handler throws).
C2_NeverRejects == Settled => finished.settled = "resolved"

\* C3: on every wrapper, an initial-response call (reply, deferReply, update,
\* deferUpdate, showModal) made after an envelope has been captured and the
\* interaction is not deferred is signalled as an error and leaves the
\* captured envelope as it was.
C3_SecondInitialRejected ==
    [][(/\ session'.w.n = session.w.n + 1
        /\ session'.w.last.op \in {"reply", "deferReply", "update", "deferUpdate",
                                   "showModal"}
        /\ session.w.capturedResponse # NullEnv
        /\ ~session.w.isDeferred)
         => /\ session'.w.last.threw
            /\ session'.w.capturedResponse = session.w.capturedResponse]_vars

\* C4: a command handler run by the dispatcher that calls deferReply() and
\* then editReply({content: y}) and returns nothing gets the
\* DeferredChannelMessage envelope as the initial response, the edit going
\* out as a follow-up.
C4_DeferThenEdit ==
    (/\ session.pc = "done"
     /\ session.w.kind = "command"
     /\ session.w.h = NoHelpers
     /\ session.err = NoThrow
     /\ session.ret = NullEnv
     /\ session.w.n = 2
     /\ session.w.isDeferred
     /\ session.w.last.op = "editReply"
     /\ session.w.last.data = MsgData("y")
     /\ ~session.w.last.threw)
      => /\ session.result.status = 200
         /\ session.result.body.env.type = "DeferredChannelMessage"
         /\ session.w.last.sent
         /\ Len(session.w.followUps) = 1

\* C5: on a component or modal wrapper that is deferred, a later reply,
\* update or editReply is delivered as a follow-up carrying the interaction
\* token, and getResponse() keeps returning the deferred envelope.
C5_DeferredRoutesFollowUp ==
    [][(/\ session.w.kind \in {"component", "modal"}
        /\ session.w.isDeferred
        /\ session'.w.n = session.w.n + 1
        /\ session'.w.last.op \in {"reply", "update", "editReply"}
        /\ ~session'.w.last.threw)
         => /\ Len(session'.w.followUps) = Len(session.w.followUps) + 1
            /\ session'.w.followUps[Len(session'.w.followUps)].token = "token"
            /\ getResponse(session'.w) = getResponse(session.w)]_vars

\* C6: the lazy auto-discovery of a directory is started at most once in the
\* life of the client, and every call waiting for it waits for that one load.
C6_LoadOnce ==
    /\ \A kind \in {"commands", "components"} : Cardinality(LazyLoads(kind)) <= 1
    /\ \A i \in 1..Len(reqs) :
          reqs[i].pc = "awaitLoad"
            => reqs[i].await \in LazyLoads(IF reqs[i].t \in {"command", "registerCommands"}
                                           THEN "commands" ELSE "components")

\* two calls wait for the same load, which has traversed its directory
C6_Witness ==
    /\ Len(reqs) >= 2
    /\ reqs[1].pc = "awaitLoad"
    /\ reqs[2].pc = "awaitLoad"
    /\ reqs[1].await = reqs[2].await
    /\ loads[reqs[1].await].traversed

C8_Ping ==
    /\ [](Settled /\ finished.body.t = "ping" /\ finished.verified = "true"
            => /\ finished.settled = "resolved"
               /\ finished.result.status = 200
               /\ finished.result.body = [tag |-> "envelope",
                                          env |-> Env("Pong", NoData),
                                          error |-> NoError]
               /\ ~finished.trace.ensured
               /\ ~finished.trace.looked
               /\ ~finished.trace.invoked)
    /\ [][(/\ ~finished.valid
           /\ finished'.valid
           /\ finished'.call = "handleRequest"
           /\ finished'.body.t = "ping")
            => UNCHANGED <<loads, loadCommandsPromise, loadComponentsPromise,
                           commandsLoaded, componentsLoaded, registries>>]_vars

\* a Ping was answered while both directories still waited for their load
C8_Witness ==
    /\ Settled
    /\ finished.body.t = "ping"
    /\ finished.result.status = 200
    /\ commandsDirectory = "dir" /\ ~commandsLoaded
    /\ componentsDirectory = "dir" /\ ~componentsLoaded
    /\ loads = <<>>

\* C9: when a handler throws, the result is status 500 with the string form
\* of the thrown value, and the call changes neither the registries nor the
\* load state that later requests depend on.
C9_HandlerThrows ==
    /\ [](Settled /\ finished.o.err # NoThrow
            => /\ finished.settled = "resolved"
               /\ finished.result.status = 500
               /\ finished.result.body.error.msg = "failed"
               /\ finished.result.body.error.name = finished.body.name
               /\ finished.result.body.error.cause =
                     (IF finished.o.err.kind = "Error"
                      THEN "Error: " \o finished.o.err.message
                      ELSE finished.o.err.message))
    /\ [][(~finished.valid /\ finished'.valid /\ finished'.o.err # NoThrow)
            => UNCHANGED <<loads, loadCommandsPromise, loadComponentsPromise,
                           commandsLoaded, componentsLoaded, registries>>]_vars

\* a handler threw new Error("boom") while another request was in flight
C9_Witness ==
    /\ Settled
    /\ finished.o.err = JSError("boom")
    /\ finished.result.status = 500
    /\ finished.result.body.error.cause = "Error: boom"
    /\ Len(reqs) > 0

\* C10: a handler that returns nothing and has captured no envelope through
\* its wrapper yields status 500 with an error naming the command, component
\* or modal.
C10_NoResponse ==
    Settled /\ finished.trace.invoked /\ finished.o.err = NoThrow
      /\ finished.o.ret = NullEnv /\ finished.o.w.capturedResponse = NullEnv
        => /\ finished.settled = "resolved"
           /\ finished.result.status = 500
           /\ finished.result.body.error.msg = "did not return a response"
           /\ finished.result.body.error.name = finished.body.name
           /\ finished.result.body.error.name \in Names
           /\ finished.result.body.error.label =
                 (CASE finished.body.t = "component" -> "Component"
                    [] finished.body.t = "modal" -> "Modal"
                    [] OTHER -> "Command")

\* a modal handler returned without touching its wrapper
C10_Witness ==
    /\ Settled
    /\ finished.body.t = "modal"
    /\ finished.trace.invoked
    /\ finished.o.err = NoThrow
    /\ finished.o.ret = NullEnv
    /\ finished.o.w.n = 0
    /\ finished.result.status = 500

\* C11: a request for a registered command whose handler calls
\* reply({content: x}) and returns nothing is answered with status 200 and a
\* ChannelMessage envelope whose data.content is x.
C11_ReplyContent ==
    Settled /\ finished.body.t = "command" /\ finished.trace.invoked
      /\ finished.o.err = NoThrow /\ finished.o.ret = NullEnv
      /\ finished.o.w.n = 1 /\ finished.o.w.last.op = "reply"
      /\ ~finished.o.w.last.threw
        => /\ \E j \in 1..Len(commands) : commands[j].key = finished.body.name
           /\ finished.settled = "resolved"
           /\ finished.result.status = 200
           /\ finished.result.body.tag = "envelope"
           /\ finished.result.body.env.type = "ChannelMessage"
           /\ finished.result.body.env.data.content = finished.o.w.last.data.content
           /\ finished.o.w.last.data.content \in {"x", "y"}

\* the handler of the discovered command "a" replied with content "x"
C11_Witness ==
    /\ Settled
    /\ finished.body = Body("command", "a", "ChatInput")
    /\ finished.o.w.n = 1
    /\ finished.o.w.last.op = "reply"
    /\ finished.o.w.last.data = MsgData("x")
    /\ finished.o.ret = NullEnv
    /\ finished.o.err = NoThrow
    /\ finished.result.status = 200

\* C12: every result of handleRequest has a status in {200, 400, 401, 404,
\* 500}; a result whose status is not 200 carries an error string and no
\* envelope, and a 200 result carries an envelope and no error.
C12_StatusAndBody ==
    Settled /\ finished.settled = "resolved"
      => /\ finished.result.status \in {200, 400, 401, 404, 500}
         /\ finished.result.status # 200
              => /\ finished.result.body.tag = "error"
                 /\ finished.result.body.env = NullEnv
                 /\ finished.result.body.error.msg # ""
         /\ finished.result.status = 200
              => /\ finished.result.body.tag = "envelope"
                 /\ finished.result.body.env # NullEnv
                 /\ finished.result.body.error = NoError

\* a handler threw and the result is an error body under status 500
C12_Witness ==
    /\ Settled
    /\ finished.trace.invoked
    /\ finished.o.err = Thrown("oops")
    /\ finished.result.status = 500
    /\ finished.result.body.tag = "error"

\* C13: a verified command, component or modal request that names something
\* for which no handler is registered once the auto-load has been ensured is
\* answered with status 404, and no handler is invoked.
C13_NotFound ==
    LET registry == CASE finished.body.t = "component" -> componentHandlers
                      [] finished.body.t = "modal" -> modalHandlers
                      [] OTHER -> commands
    IN  (/\ Settled
         /\ finished.settled = "resolved"
         /\ finished.verified = "true"
         /\ finished.body.t \in {"command", "component", "modal"}
         /\ finished.body.name \in Names
         /\ \A j \in 1..Len(registry) : registry[j].key # finished.body.name)
            => /\ finished.trace.looked
               /\ ~finished.trace.invoked
               /\ finished.o = NoOutcome
               /\ finished.result.status = 404
               /\ finished.result.body.error.name = finished.body.name

\* after the components directory was loaded, a modal request names an id
\* that only the component map holds
C13_Witness ==
    /\ Settled
    /\ finished.body = Body("modal", "a", "")
    /\ finished.result.status = 404
    /\ componentsLoaded
    /\ \E j \in 1..Len(componentHandlers) : componentHandlers[j].key = "a"

\* C14: the body is parsed only after verification succeeded, and every
\* payload error (unparsable JSON, an unknown interaction type, a component
\* or modal payload without custom_id, a command payload without a name) is
\* answered with status 400 without invoking a handler.
C14_PayloadErrors ==
    /\ Settled /\ finished.trace.parsed => finished.verified = "true"
    /\ Settled /\ finished.verified = "true"
         /\ (\/ finished.body.t \in {"badjson", "unknown"}
             \/ /\ finished.body.t \in {"command", "component", "modal"}
                /\ finished.body.name = "")
         => /\ finished.settled = "resolved"
            /\ finished.result.status = 400
            /\ ~finished.trace.invoked

\* C15: editReply on a command or context-menu wrapper that is deferred or
\* has responded goes out as a follow-up to the original message and leaves
\* the captured envelope alone; on an unacknowledged wrapper it acts as a
\* first reply, its ChannelMessage envelope becoming the captured one.
C15_EditReplyRouting ==
    [][(/\ session.w.kind \in {"command", "context"}
        /\ session'.w.n = session.w.n + 1
        /\ session'.w.last.op = "editReply"
        /\ ~session'.w.last.threw)
         => IF session.w.isDeferred \/ session.w.hasResponded
            THEN /\ Len(session'.w.followUps) = Len(session.w.followUps) + 1
                 /\ session'.w.followUps[Len(session'.w.followUps)].messageId
                       = "@original"
                 /\ session'.w.capturedResponse = session.w.capturedResponse
            ELSE /\ session'.w.capturedResponse.type = "ChannelMessage"
                 /\ session'.w.capturedResponse.data.content
                       = session'.w.last.data.content
                 /\ session'.w.followUps = session.w.followUps]_vars

\* C16: followUp on a command or context-menu wrapper throws when it is given
\* no data, and in every state it leaves the envelope that getResponse()
\* returns as it was.
C16_FollowUpOutOfBand ==
    [][(/\ session.w.kind \in {"command", "context"}
        /\ session'.w.n = session.w.n + 1
        /\ session'.w.last.op = "followUp")
         => /\ session'.w.last.data = NoData => session'.w.last.threw
            /\ getResponse(session'.w) = getResponse(session.w)]_vars

\* C19: a step that imports a component file lying under a directory named
\* modals registers its valid exports in the modal map and leaves the component
\* map alone; a step that imports any other component file registers them in
\* the component map and leaves the modal map alone.
C19_ModalsDirectory ==
    [][\A t \in 1..Len(loads) :
          (/\ loads[t].kind = "components"
           /\ loads[t].pc = "import"
           /\ Len(loads') = Len(loads)
           /\ loads'[t] # loads[t])
            => LET file == fs.components.files[loads[t].i]
                   dirs == {file.path[k] : k \in 1..(Len(file.path) - 1)}
                   good(k) == /\ file.importOk
                              /\ file.cands[k].obj
                              /\ ~Falsy(file.cands[k].customId)
                              /\ IsFunction(file.cands[k].handler)
                   ids == {file.cands[k].customId : k \in {j \in 1..Len(file.cands) : good(j)}}
                   clean == \A k \in 1..Len(file.cands) : good(k)
               IN  IF "modals" \in dirs
                   THEN /\ componentHandlers' = componentHandlers
                        /\ clean => \A id \in ids : MapHas(modalHandlers', id)
                   ELSE /\ modalHandlers' = modalHandlers
                        /\ clean => \A id \in ids : MapHas(componentHandlers', id)
      ]_vars

\* both files of the components directory were imported: modals.js gave a
\* component, modals/b.js a modal
C19_Witness ==
    /\ componentsLoaded
    /\ MapHas(componentHandlers, "a")
    /\ ~MapHas(componentHandlers, "b")
    /\ MapHas(modalHandlers, "b")
    /\ ~MapHas(modalHandlers, "a")

\* C20: after any sequence of useCommand, useComponent and useModal calls, each
\* map holds exactly the keys registered so far, one entry per key, every key
\* with the handler of the latest registration of that key; and a call with
\* valid arguments never throws, whether or not its key was known.  A
\* registration is a key that a call reached with a valid name or custom id
\* and handler: the calls are replayed here from their arguments alone.
C20_DuplicateOverwrites ==
    LET valid(x) == ~Falsy(x.customId) /\ IsFunction(x.handler)
        allValid(list) == \A i \in 1..Len(list) : valid(list[i])
        lead(list) ==
            IF allValid(list) THEN Len(list)
            ELSE (CHOOSE i \in 1..Len(list) :
                     ~valid(list[i]) /\ \A j \in 1..(i - 1) : valid(list[j])) - 1
        items(map, list) ==
            [j \in 1..lead(list) |->
                [map |-> map, key |-> list[j].customId, handler |-> list[j].handler]]
        writes(call) ==
            IF call.op = "useCommand"
            THEN IF Falsy(call.arg.name) THEN <<>>
                 ELSE <<[map |-> "commands", key |-> call.arg.name,
                         handler |-> call.arg.handler]>>
                      \o items("components", call.arg.components)
                      \o (IF allValid(call.arg.components)
                          THEN items("modals", call.arg.modals) ELSE <<>>)
            ELSE IF call.op = "useComponent" THEN items("components", <<call.arg>>)
            ELSE items("modals", <<call.arg>>)
        W == UNION {{<<i, j>> : j \in 1..Len(writes(session[i]))} : i \in 1..Len(session)}
        at(p) == writes(session[p[1]])[p[2]]
        later(p, q) == p[1] > q[1] \/ (p[1] = q[1] /\ p[2] > q[2])
        on(map, k) == {p \in W : at(p).map = map /\ at(p).key = k}
        keysOf(map) == {at(p).key : p \in {q \in W : at(q).map = map}}
        lastOf(map, k) ==
            at(CHOOSE p \in on(map, k) : \A q \in on(map, k) : ~later(q, p)).handler
        the(map) == IF map = "commands" THEN commands
                    ELSE IF map = "components" THEN componentHandlers
                    ELSE modalHandlers
        handlerIn(map, k) == IF map = "commands" THEN MapGet(commands, k).handler
                             ELSE MapGet(the(map), k)
        fine(call) ==
            IF call.op = "useCommand"
            THEN /\ ~Falsy(call.arg.name)
                 /\ allValid(call.arg.components)
                 /\ allValid(call.arg.modals)
            ELSE valid(call.arg)
    IN  /\ \A map \in {"commands", "components", "modals"} :
              /\ {the(map)[i].key : i \in 1..Len(the(map))} = keysOf(map)
              /\ Len(the(map)) = Cardinality(keysOf(map))
              /\ \A k \in keysOf(map) : handlerIn(map, k) = lastOf(map, k)
        /\ \A i \in 1..Len(session) : fine(session[i]) <=> ~session[i].threw

\* a custom id registered twice with different handlers, then a third call
C20_Witness ==
    /\ Len(session) = 3
    /\ session[1].op = "useComponent" /\ session[1].arg = Item("a", "h1")
    /\ session[2].op = "useComponent" /\ session[2].arg = Item("a", "h2")
    /\ ~session[2].threw
    /\ session[3].op = "useCommand" /\ session[3].arg.name = "a"
    /\ componentHandlers = <<[key |-> "a", value |-> "h2"]>>
    /\ Len(commands) = 1

\* C21: a useCommand, useComponent or useModal call whose name or custom id is
\* missing, or whose handler is not a function, throws and leaves the command,
\* component and modal maps as they were.
C21_RegistrationValidates ==
    [][Len(session') = Len(session) + 1
         => LET call == session'[Len(session')]
                key == IF call.op = "useCommand" THEN call.arg.name
                       ELSE call.arg.customId
            IN  (Falsy(key) \/ ~IsFunction(call.arg.handler))
                  => /\ call.threw
                     /\ UNCHANGED registries
      ]_vars

\* C22: a useCommand call with a name and valid embedded entries registers
\* every entry of its components array in the component map and every entry of
\* its modals array in the modal map, and does not throw.
C22_CommandCascade ==
    [][Len(session') = Len(session) + 1
         => LET call == session'[Len(session')]
                valid(x) == ~Falsy(x.customId) /\ IsFunction(x.handler)
                allValid(list) == \A i \in 1..Len(list) : valid(list[i])
                registered(map, list) ==
                    \A i \in 1..Len(list) :
                       /\ MapCount(map, list[i].customId) = 1
                       /\ (\A j \in (i + 1)..Len(list) :
                              list[j].customId # list[i].customId)
                            => MapGet(map, list[i].customId) = list[i].handler
            IN  (/\ call.op = "useCommand"
                 /\ ~Falsy(call.arg.name)
                 /\ allValid(call.arg.components)
                 /\ allValid(call.arg.modals))
                  => /\ ~call.threw
                     /\ MapHas(commands', call.arg.name)
                     /\ registered(componentHandlers', call.arg.components)
                     /\ registered(modalHandlers', call.arg.modals)
      ]_vars

\* one command brought a component along, another a modal
C22_Witness ==
    /\ Len(session) = 2
    /\ session[1].op = "useCommand"
    /\ session[1].arg.components = <<Item("a", "h2")>>
    /\ session[2].op = "useCommand"
    /\ session[2].arg.modals = <<Item("a", "h1")>>
    /\ componentHandlers = <<[key |-> "a", value |-> "h2"]>>
    /\ modalHandlers = <<[key |-> "a", value |-> "h1"]>>

\* C23: a step that imports a command file whose exported command is valid
\* and carries components and modals arrays registers every entry of those
\* arrays in the component map and the modal map.
C23_DiscoveredCascade ==
    [][\A t \in 1..Len(loads) :
          (/\ loads[t].kind = "commands"
           /\ loads[t].pc = "import"
           /\ Len(loads') = Len(loads)
           /\ loads'[t] # loads[t])
            => LET file == fs.commands.files[loads[t].i]
                   command == file.cand
               IN  (/\ file.importOk
                    /\ file.obj
                    /\ IsString(command.name)
                    /\ IsFunction(command.handler))
                     => /\ \A k \in 1..Len(command.components) :
                              MapHas(componentHandlers', command.components[k].customId)
                        /\ \A k \in 1..Len(command.modals) :
                              MapHas(modalHandlers', command.modals[k].customId)
      ]_vars

\* C24: whatever the modules of a readable directory export, a load of that
\* directory never fails, and a request that went through the loading of
\* readable directories is answered, not rejected.
C24_DiscoveryNeverFatal ==
    LET readable(kind) == fs[kind].observed /\ fs[kind].exists /\ fs[kind].readable
    IN  /\ \A t \in 1..Len(loads) :
              readable(loads[t].kind) => loads[t].pc # "failed"
        /\ (/\ Settled
             /\ finished.trace.ensured
             /\ \A kind \in {"commands", "components"} :
                   fs[kind].observed => readable(kind))
              => finished.settled = "resolved"

\* C25: a directory override that lies outside /app/src and /app/dist, read
\* as an absolute path or against the project root or either allowed root, is
\* rejected with an error, and a directory that is returned lies within one of
\* the two roots.
C25_OverrideWithinRoots ==
    LET override == session.arg.overrideDirectory
        within(path) ==
            \E root \in {<<"app", "src">>, <<"app", "dist">>} :
               Len(path) >= Len(root) /\ SubSeq(path, 1, Len(root)) = root
        readings ==
            IF override.absolute THEN {resolve(<<>>, override.segments)}
            ELSE {resolve(base, override.segments) :
                    base \in {<<"app">>, <<"app", "src">>, <<"app", "dist">>}}
    IN  (session.pc = "done" /\ session.op = "resolveDirectory")
        => /\ (override.defined /\ \A path \in readings : ~within(path))
                => session.out.threw
           /\ ~session.out.threw => within(resolve(<<>>, session.out.value))

\* C26 as stated: a typed getter returns null when the option is absent and
\* not required, throws "required option missing" when it is absent and
\* required, throws a type mismatch when the option of that name has another
\* type, and in every other case returns the value.
C26_GetterFourCases ==
    LET arg == session.arg
        out == session.out
        type == CASE session.op = "getString" -> "String"
                  [] session.op = "getInteger" -> "Integer"
                  [] session.op = "getNumber" -> "Number"
                  [] session.op = "getBoolean" -> "Boolean"
                  [] session.op = "getUser" -> "User"
                  [] session.op = "getRole" -> "Role"
                  [] session.op = "getChannel" -> "Channel"
                  [] session.op = "getAttachment" -> "Attachment"
                  [] OTHER -> "Mentionable"
        named(option) == option.name = arg.name
        found == SelectSeq(resolveFocusedOptions(arg.options).options, named)
    IN  (/\ session.pc = "done"
         /\ session.op \in {"getString", "getInteger", "getNumber", "getBoolean",
                            "getUser", "getRole", "getChannel", "getAttachment",
                            "getMentionable"})
        => IF Len(found) = 0
           THEN IF arg.required = "true"
                THEN /\ out.threw
                     /\ out.error = "Required " \o OPTION_TYPE_LABEL[type]
                                    \o " option \"" \o arg.name \o "\" is missing"
                ELSE ~out.threw /\ out.value.kind = "null"
           ELSE IF found[1].type # type
           THEN /\ out.threw
                /\ out.error = "Option \"" \o arg.name \o "\" is a "
                               \o OPTION_TYPE_LABEL[found[1].type] \o ", expected "
                               \o OPTION_TYPE_LABEL[type]
           ELSE /\ ~out.threw
                /\ out.value.kind # "null"
                /\ out.value.id = found[1].value

\* C26: as above, where the value of getString, getInteger, getNumber and
\* getBoolean is the value of the option and the value of getUser, getRole,
\* getChannel, getAttachment and getMentionable is the entry of the resolved
\* data under that id; when the resolved data have no such entry these five
\* return null, or throw "resolved data missing" when required is true.
C26_GetterCases ==
    LET arg == session.arg
        out == session.out
        type == CASE session.op = "getString" -> "String"
                  [] session.op = "getInteger" -> "Integer"
                  [] session.op = "getNumber" -> "Number"
                  [] session.op = "getBoolean" -> "Boolean"
                  [] session.op = "getUser" -> "User"
                  [] session.op = "getRole" -> "Role"
                  [] session.op = "getChannel" -> "Channel"
                  [] session.op = "getAttachment" -> "Attachment"
                  [] OTHER -> "Mentionable"
        named(option) == option.name = arg.name
        found == SelectSeq(resolveFocusedOptions(arg.options).options, named)
        id == found[1].value
        has(records) == records.defined /\ id \in records.ids
        resolvable ==
            CASE type = "User" -> has(arg.resolved.users)
              [] type = "Role" -> has(arg.resolved.roles)
              [] type = "Channel" -> has(arg.resolved.channels)
              [] type = "Attachment" -> has(arg.resolved.attachments)
              [] type = "Mentionable" ->
                   has(arg.resolved.roles) \/ has(arg.resolved.users)
              [] OTHER -> TRUE
    IN  (/\ session.pc = "done"
         /\ session.op \in {"getString", "getInteger", "getNumber", "getBoolean",
                            "getUser", "getRole", "getChannel", "getAttachment",
                            "getMentionable"})
        => IF Len(found) = 0
           THEN IF arg.required = "true"
                THEN /\ out.threw
                     /\ out.error = "Required " \o OPTION_TYPE_LABEL[type]
                                    \o " option \"" \o arg.name \o "\" is missing"
                ELSE ~out.threw /\ out.value.kind = "null"
           ELSE IF found[1].type # type
           THEN /\ out.threw
                /\ out.error = "Option \"" \o arg.name \o "\" is a "
                               \o OPTION_TYPE_LABEL[found[1].type] \o ", expected "
                               \o OPTION_TYPE_LABEL[type]
           ELSE IF resolvable
           THEN /\ ~out.threw
                /\ out.value.kind # "null"
                /\ out.value.id = id
           ELSE IF arg.required = "true"
           THEN /\ out.threw
                /\ out.error = "Resolved data for " \o OPTION_TYPE_LABEL[type]
                               \o " option \"" \o arg.name \o "\" is missing"
           ELSE ~out.threw /\ out.value.kind = "null"

\* a user option whose id the resolved data do not hold, not required
C26_Witness ==
    /\ session.pc = "done"
    /\ session.op = "getUser"
    /\ session.arg.required = "false"
    /\ session.arg.options.list = <<Option("a", "User", "1", FALSE, <<>>)>>
    /\ ~session.arg.resolved.users.defined
    /\ ~session.out.threw
    /\ session.out.value.kind = "null"

\* C27 as stated: a group containing a subcommand gives both names and the
\* options of the subcommand, a subcommand gives its name and its options, and
\* every other option list gives no names and the raw list; getSubcommand and
\* getSubcommandGroup take required = true by default and throw when the
\* name is absent.
C27_CollapseOrRaw ==
    LET arg == session.arg
        out == session.out
        raw == IF arg.options.defined THEN arg.options.list ELSE <<>>
        children == IF raw[1].hasOptions THEN raw[1].options ELSE <<>>
        focused == resolveFocusedOptions(arg.options)
        present == IF session.op = "getSubcommand" THEN focused.subcommand
                   ELSE focused.subcommandGroup
    IN  (session.pc = "done" /\ "options" \in DOMAIN arg)
        => /\ IF Len(raw) > 0 /\ raw[1].type = "SubcommandGroup"
                 /\ Len(children) > 0 /\ children[1].type = "Subcommand"
              THEN /\ focused.subcommandGroup = raw[1].name
                   /\ focused.subcommand = children[1].name
                   /\ focused.options = IF children[1].hasOptions
                                         THEN children[1].options ELSE <<>>
              ELSE IF Len(raw) > 0 /\ raw[1].type = "Subcommand"
              THEN /\ focused.subcommandGroup = "null"
                   /\ focused.subcommand = raw[1].name
                   /\ focused.options = children
              ELSE /\ focused.subcommandGroup = "null"
                   /\ focused.subcommand = "null"
                   /\ focused.options = raw
           /\ session.op \in {"getSubcommand", "getSubcommandGroup"}
              => IF present # "null"
                 THEN ~out.threw /\ out.value.id = present
                 ELSE IF arg.required \in {"undefined", "true"} THEN out.threw
                 ELSE ~out.threw /\ out.value.kind = "null"

\* C27: as above, except that a group whose first child is not a subcommand
\* (it has no children, say) still gives the name of the group, with no
\* subcommand and no options.
C27_CollapseActivePath ==
    LET arg == session.arg
        out == session.out
        raw == IF arg.options.defined THEN arg.options.list ELSE <<>>
        children == IF raw[1].hasOptions THEN raw[1].options ELSE <<>>
        focused == resolveFocusedOptions(arg.options)
        present == IF session.op = "getSubcommand" THEN focused.subcommand
                   ELSE focused.subcommandGroup
    IN  (session.pc = "done" /\ "options" \in DOMAIN arg)
        => /\ IF Len(raw) > 0 /\ raw[1].type = "SubcommandGroup"
                 /\ Len(children) > 0 /\ children[1].type = "Subcommand"
              THEN /\ focused.subcommandGroup = raw[1].name
                   /\ focused.subcommand = children[1].name
                   /\ focused.options = IF children[1].hasOptions
                                         THEN children[1].options ELSE <<>>
              ELSE IF Len(raw) > 0 /\ raw[1].type = "SubcommandGroup"
              THEN /\ focused.subcommandGroup = raw[1].name
                   /\ focused.subcommand = "null"
                   /\ focused.options = <<>>
              ELSE IF Len(raw) > 0 /\ raw[1].type = "Subcommand"
              THEN /\ focused.subcommandGroup = "null"
                   /\ focused.subcommand = raw[1].name
                   /\ focused.options = children
              ELSE /\ focused.subcommandGroup = "null"
                   /\ focused.subcommand = "null"
                   /\ focused.options = raw
           /\ session.op \in {"getSubcommand", "getSubcommandGroup"}
              => IF present # "null"
                 THEN ~out.threw /\ out.value.id = present
                 ELSE IF arg.required \in {"undefined", "true"} THEN out.threw
                 ELSE ~out.threw /\ out.value.kind = "null"

\* getSubcommandGroup names a group whose subcommand getSubcommand would miss
C27_Witness ==
    /\ session.pc = "done"
    /\ session.op = "getSubcommandGroup"
    /\ session.arg.required = "undefined"
    /\ session.arg.options.list = <<Option("g", "SubcommandGroup", "", TRUE, <<>>)>>
    /\ ~session.out.threw
    /\ session.out.value.id = "g"

\* C28: getMentionable looks the id of the option up in the resolved roles
\* first and in the resolved users second: an id in both gives a role, an id
\* only in the users gives a user (with its member data when there is some),
\* an id in neither gives null, or an error when required is true.  The
\* getMentionables of a select menu tags each value in the same order.
C28_MentionableRoleFirst ==
    LET arg == session.arg
        out == session.out
        isRole(id) == arg.resolved.roles.defined /\ id \in arg.resolved.roles.ids
        isUser(id) == arg.resolved.users.defined /\ id \in arg.resolved.users.ids
        isMember(id) == arg.resolved.members.defined /\ id \in arg.resolved.members.ids
        named(option) == option.name = arg.name
        found == SelectSeq(resolveFocusedOptions(arg.options).options, named)
        id == found[1].value
    IN  /\ (/\ session.pc = "done"
            /\ session.op = "getMentionable"
            /\ Len(found) > 0
            /\ found[1].type = "Mentionable")
           => IF isRole(id)
              THEN ~out.threw /\ out.value.type = "role"
                   /\ out.value.kind = "role" /\ out.value.id = id
              ELSE IF isUser(id)
              THEN ~out.threw /\ out.value.type = "user"
                   /\ out.value.kind = "user" /\ out.value.id = id
                   /\ out.value.member = isMember(id)
              ELSE IF arg.required = "true" THEN out.threw
              ELSE ~out.threw /\ out.value.kind = "null"
        /\ (session.pc = "done" /\ session.op = "getMentionables")
           => \A i \in 1..Len(out.value) :
                 /\ out.value[i].type = IF isRole(out.value[i].id) THEN "role" ELSE "user"
                 /\ out.value[i].kind = out.value[i].type

\* an id that is a resolved role and a resolved user comes back as a role
C28_Witness ==
    /\ session.pc = "done"
    /\ session.op = "getMentionable"
    /\ session.arg.resolved.roles.ids = {"1"}
    /\ session.arg.resolved.users.ids = {"1"}
    /\ ~session.out.threw
    /\ session.out.value.type = "role"
    /\ session.out.value.id = "1"

\* C29: on a select-menu interaction getRoles, getUsers and getChannels never
\* throw and return exactly the values that are ids of the resolved map they
\* read, in the order of the values: nothing when no value resolves or when
\* the values, the resolved data or that map are absent.
C29_SelectGetters ==
    (session.pc = "done" /\ session.op \in {"getRoles", "getUsers", "getChannels"})
    => LET arg == session.arg
           records == CASE session.op = "getRoles" -> arg.resolved.roles
                        [] session.op = "getUsers" -> arg.resolved.users
                        [] OTHER -> arg.resolved.channels
           resolvable(id) ==
               arg.resolved.defined /\ records.defined /\ id \in records.ids
           expected == IF arg.values.defined
                       THEN SelectSeq(arg.values.ids, resolvable) ELSE <<>>
       IN  /\ ~session.out.threw
           /\ Len(session.out.value) = Len(expected)
           /\ \A i \in 1..Len(expected) :
                 /\ session.out.value[i].id = expected[i]
                 /\ session.out.value[i].kind = records.kind

\* two values of which only the second is a resolved role
C29_Witness ==
    /\ session.pc = "done"
    /\ session.op = "getRoles"
    /\ session.arg.values.ids = <<"2", "1">>
    /\ session.arg.resolved.roles.ids = {"1"}
    /\ Len(session.out.value) = 1
    /\ session.out.value[1].id = "1"

\* C30: reply on a component or modal-submit wrapper that is given no data
\* throws, and leaves the captured envelope and the deferred flag as they were
\* and calls neither onAck nor sendFollowUp.
C30_ReplyRequiresData ==
    [][(/\ session.w.kind \in {"component", "modal"}
        /\ session'.w.n = session.w.n + 1
        /\ session'.w.last.op = "reply"
        /\ normaliseInteractionMessageData(session'.w.last.data) = NoData)
         => /\ session'.w.last.threw
            /\ session'.w.capturedResponse = session.w.capturedResponse
            /\ session'.w.isDeferred = session.w.isDeferred
            /\ session'.w.acks = session.w.acks
            /\ session'.w.followUps = session.w.followUps]_vars

\* a deferred component wrapper with the callbacks whose reply was rejected
C30_Witness ==
    /\ session.w.kind = "component"
    /\ session.w.h.sendFollowUp
    /\ session.w.isDeferred
    /\ session.w.capturedResponse.type = "DeferredChannelMessage"
    /\ session.w.last.op = "reply"
    /\ session.w.last.data = NoData
    /\ session.w.last.threw
    /\ session.w.followUps = <<>>

\* C31: getResponse() returns the captured envelope, null before any response
\* call, leaves the wrapper as it is, and gives the same envelope again when
\* it is called again with no helper call in between.
C31_GetResponseIdempotent ==
    [][(session'.reads = session.reads + 1)
         => /\ session'.w = session.w
            /\ session'.got = session.w.capturedResponse
            /\ session.w.n = 0 => session'.got = NullEnv
            /\ (session.reads > 0 /\ session.gotAt = session.w.n)
                  => session'.got = session.got]_vars

\* two getResponse() calls after a single reply
C31_Witness ==
    /\ session.w.n = 1
    /\ session.w.last.op = "reply"
    /\ ~session.w.last.threw
    /\ session.reads = 2
    /\ session.gotAt = 1
    /\ session.got = session.w.capturedResponse
    /\ session.got.type = "ChannelMessage"

\* C38: on a component wrapper every helper call that returns leaves the
\* envelope it built as the captured one, a call that throws leaves the
\* captured one alone, and the deferred flag is set by deferReply and
\* deferUpdate and never reset: the last writer wins and the flag says
\* whether one of the two was ever called.
C38_LastWriterWins ==
    [][(session.w.kind = "component" /\ session'.w.n = session.w.n + 1)
         => LET call == session'.w.last
                type == CASE call.op = "reply" -> "ChannelMessage"
                          [] call.op = "deferReply" -> "DeferredChannelMessage"
                          [] call.op = "update" -> "UpdateMessage"
                          [] call.op = "deferUpdate" -> "DeferredMessageUpdate"
                          [] OTHER -> "Modal"
            IN  /\ session.w.n = 0
                     => ~session.w.isDeferred /\ session.w.capturedResponse = NullEnv
                /\ IF call.threw
                   THEN session'.w.capturedResponse = session.w.capturedResponse
                   ELSE /\ session'.w.capturedResponse.type = type
                        /\ call.op \in {"reply", "update"}
                             => session'.w.capturedResponse.data
                                = normaliseInteractionMessageData(call.data)
                /\ session'.w.isDeferred
                   = (\/ session.w.isDeferred
                      \/ ~call.threw /\ call.op \in {"deferReply", "deferUpdate"})]_vars

\* an update after a deferUpdate: the update is captured, the flag stays
C38_Witness ==
    /\ session.w.kind = "component"
    /\ session.w.n = 2
    /\ session.w.last.op = "update"
    /\ ~session.w.last.threw
    /\ session.w.isDeferred
    /\ session.w.capturedResponse.type = "UpdateMessage"
    /\ session.w.acks = 1
    /\ Len(session.w.followUps) = 1

\* C33: when the handler returns an envelope the result is 200 with that
\* envelope, whatever the helper calls captured; when it returns nothing the
\* result is 200 with the captured envelope, if there is one.
C33_ReturnBeforeCaptured ==
    (session.pc = "done" /\ session.err = NoThrow)
    => IF session.ret # NullEnv
       THEN session.result = EnvelopeResult(session.ret)
       ELSE session.w.capturedResponse # NullEnv
            => session.result = EnvelopeResult(session.w.capturedResponse)

\* a handler that replied with one envelope and returned another
C33_Witness ==
    /\ session.pc = "done"
    /\ session.err = NoThrow
    /\ session.w.h = NoHelpers
    /\ session.w.capturedResponse.type = "ChannelMessage"
    /\ session.w.capturedResponse.data = MsgData("x")
    /\ session.ret = Env("ChannelMessage", MsgData("r"))
    /\ session.result.status = 200
    /\ session.result.body.env = session.ret

\* C36: a useCommand call for a named command with an embedded component or
\* modal that has no custom id or no function as handler throws and leaves the
\* command map, the component map and the modal map as they were.
C36_CascadeAtomic ==
    [][Len(session') = Len(session) + 1
         => LET call == session'[Len(session')]
                invalid(x) == Falsy(x.customId) \/ ~IsFunction(x.handler)
                someInvalid(list) == \E i \in 1..Len(list) : invalid(list[i])
            IN  (/\ call.op = "useCommand"
                 /\ ~Falsy(call.arg.name)
                 /\ someInvalid(call.arg.components) \/ someInvalid(call.arg.modals))
                  => /\ call.threw
                     /\ commands' = commands
                     /\ componentHandlers' = componentHandlers
                     /\ modalHandlers' = modalHandlers
      ]_vars

\* C32: a request looks its handler up only when no lazy load of its kind is
\* pending or has failed, so a 404 names a handler that the finished discovery
\* did not register.
C32_LookupAfterLoad ==
    (Settled /\ finished.trace.looked)
    => LET kind == IF finished.body.t = "command" THEN "commands" ELSE "components"
       IN  /\ \A t \in LazyLoads(kind) : loads[t].pc = "done"
           /\ Loaded(kind) \/ Directory(kind) = "null"
           /\ finished.result.status = 404
                => ~MapHas(RegistryOf(finished.body), finished.body.name)

\* one of two requests that waited for the same load has found its handler,
\* the other is still waiting
C32_Witness ==
    /\ Settled
    /\ finished.body.t = "command"
    /\ finished.trace.invoked
    /\ LazyLoads("commands") = {1}
    /\ loads[1].pc = "done"
    /\ Len(reqs) = 1
    /\ reqs[1].pc = "awaitLoad"
    /\ reqs[1].await = 1

\* C34: a load handle is set only while a lazy load is in flight: once the
\* load has settled, resolved or rejected, the handle is null again.
C34_HandleClearedOnSettle ==
    \A kind \in {"commands", "components"} :
       Promise(kind) # 0 => loads[Promise(kind)].pc \notin {"done", "failed"}

\* C35: a loaded flag that is true stays true; a lazy load is started only
\* for a kind whose flag is false and whose directory is not disabled.
C35_LoadedMonotonic ==
    [][/\ commandsLoaded => commandsLoaded'
       /\ componentsLoaded => componentsLoaded'
       /\ Len(loads') = Len(loads) + 1
            => LET kind == loads'[Len(loads')].kind
               IN  ~Loaded(kind) /\ Directory(kind) # "null"]_vars

\* a command request answered after the one lazy load, with the components
\* directory disabled and a component request answered without any load
C35_Witness ==
    /\ commandsLoaded
    /\ componentsDirectory = "null"
    /\ Settled
    /\ finished.body.t = "component"
    /\ finished.trace.looked
    /\ Len(loads) = 1
    /\ loads[1].kind = "commands"
    /\ loads[1].pc = "done"

\* C17: normaliseMessageFlags gives undefined for undefined and for the empty
\* array, passes a single flag through, and for an array of flags gives the
\* bitwise or of its elements, whatever their order and multiplicity.
C17_FlagsLaw ==
    session.pc = "done" /\ session.op = "flags"
      => /\ session.flags.kind = "undefined" => session.out = Undef
         /\ session.flags.kind = "single"
              => /\ session.out = session.flags.value
                 /\ normaliseMessageFlags(session.flags.value) = session.flags.value
         /\ session.flags.kind = "array" /\ session.flags.list = <<>>
              => session.out = Undef /\ session.out # 0
         /\ session.flags.kind = "array" /\ session.flags.list # <<>>
              => /\ session.out \in 0..(2 * IsComponentsV2 - 1)
                 /\ \A bit \in {2, 4, 64, 128, 32768} :
                       HasBit(session.out, bit)
                         <=> \E i \in 1..Len(session.flags.list) :
                                HasBit(session.flags.list[i], bit)

\* an array that names one flag twice next to another flag
C17_Witness ==
    /\ session.pc = "done"
    /\ session.op = "flags"
    /\ session.flags = FlagArray(<<Ephemeral, SuppressEmbeds, Ephemeral>>)
    /\ session.out = 68

\* C18: whenever the components contain a Components V2 component, at the top
\* level or inside an action row, as a plain object or as a builder, the
\* normalised flags include the IsComponentsV2 bit, also when the caller
\* passed no flags, and keep every flag the caller passed.
C18_RichLayoutFlag ==
    LET list == session.components.list
        rich == \E i \in 1..Len(list) :
                   \/ list[i].type \in COMPONENTS_V2_TYPES
                   \/ \E k \in 1..Len(list[i].components) :
                         list[i].components[k].type \in COMPONENTS_V2_TYPES
        passed(bit) == \/ session.flags.kind = "single" /\ HasBit(session.flags.value, bit)
                       \/ \E i \in 1..Len(session.flags.list) :
                             HasBit(session.flags.list[i], bit)
        Good(out) == /\ out.flags # Undef
                     /\ HasBit(out.flags, IsComponentsV2)
                     /\ \A bit \in Bits : passed(bit) => HasBit(out.flags, bit)
    IN  (session.pc = "done" /\ session.op = "data" /\ session.components.present
           /\ rich)
          => /\ Good(session.a)
             /\ Good(session.b)
             /\ session.flags.kind # "array" => Good(session.c)

\* C37: with two requests in flight, the response state of each interaction
\* object reflects the helper calls of its own handler only: without a call of
\* its own nothing is captured and no flag is set, a captured message carries
\* its own handler's content, the deferred flag needs a defer call of its own,
\* and a 200 result carries the handler's own return value or its own capture.
C37_SessionsIsolated ==
    \A i \in 1..2 :
       LET s == session[i].s
           own(env) == env.data.content \in {"undefined", "modal", ContentOf(i)}
       IN  /\ s.w.n = 0 => /\ s.w.capturedResponse = NullEnv
                           /\ ~s.w.isDeferred
                           /\ ~s.w.hasResponded
           /\ own(s.w.capturedResponse)
           /\ s.w.isDeferred => session[i].ops \cap {"deferReply", "deferUpdate"} # {}
           /\ (s.pc = "done" /\ s.result.status = 200)
                => /\ own(s.result.body.env)
                   /\ s.result.body.env \in {s.ret, s.w.capturedResponse}

\* both handlers replied, the first one twice, and each request settled with
\* its own message
C37_Witness ==
    /\ \A i \in 1..2 :
          /\ session[i].s.pc = "done"
          /\ session[i].s.ret = NullEnv
          /\ session[i].s.result.status = 200
          /\ session[i].s.result.body.env.type = "ChannelMessage"
          /\ session[i].s.result.body.env.data.content = ContentOf(i)
    /\ session[1].s.w.kind = "command"
    /\ session[2].s.w.kind = "component"
    /\ session[1].s.w.n = 2

\* C39: when getTokens returns tokens for a user, they are the tokens of the
\* latest storeTokens or updateTokens call for that user that returned true,
\* and no deleteTokens call for that user was issued after it.
C39_CacheMatchesReports ==
    (session.last.op = "getTokens" /\ session.last.tokens # NoTokens)
    => session.last.tokens = session.reported[Key(session.last.userId)]

TypeOK ==
    /\ Len(reqs) <= MaxReq
    /\ Len(loads) <= MaxLoads
    /\ commandsLoaded \in BOOLEAN
    /\ session.w.n <= MaxCalls

====
